---- MODULE Spec2Model ----
(***************************************************************************)
(* HiddenHand poker program: the betting state machine (player_action,     *)
(* timeout_player, reveal_community), the showdown reveal steps            *)
(* (reveal_cards, timeout_reveal) and settlement (showdown), modelled on   *)
(* one hand of one table.  Handlers are operators from the account state   *)
(* to a result record [ok, h, ss]; an instruction whose require! fails     *)
(* returns ok = FALSE and the transaction leaves every account as it was.  *)
(***************************************************************************)
EXTENDS Integers, Sequences, FiniteSets, TLC

\* ------------------------------------------------------------------ table

\* table.max_players of the modelled table (create_table accepts 2..6)
max_players == 3
\* table.small_blind / table.big_blind of the modelled table
small_blind == 1
big_blind == 2
\* table.dealer_position after start_hand's advance_dealer
dealer_pos == 0

\* Largest stack a seat brings to the hand, largest Raise{amount} submitted
MaxStack == 3
MaxRaise == 3

\* constants.rs
ACTION_TIMEOUT_SECONDS == 60
DEAL_TIMEOUT_SECONDS == 30
\* Used by timeout_reveal and reveal_community; their values are the ones the
\* comments at the use sites state (3 minutes, 60s)
REVEAL_TIMEOUT_SECONDS == 180
ALLOWANCE_TIMEOUT_SECONDS == 60

Seats == 0 .. (max_players - 1)
NOT_REVEALED == 255

BettingPhases == {"PreFlop", "Flop", "Turn", "River"}

Min(a, b) == IF a < b THEN a ELSE b
\* u64 saturating_sub / saturating_add (stacks stay far below 2^64)
saturating_sub(a, b) == IF a > b THEN a - b ELSE 0
saturating_add(a, b) == a + b

\* ------------------------------------------------------------- variables

VARIABLES
    hand,           \* the HandState account
    seats,          \* the PlayerSeat accounts, by seat index
    deck,           \* deck_state.cards (the community cards and the hole cards dealt)
    table_status,   \* table.status
    elapsed,        \* clock.unix_timestamp - hand.last_action_time, capped
    last            \* the last instruction that was accepted

vars == <<hand, seats, deck, table_status, elapsed, last>>

\* --------------------------------------------------------------- HandState

is_player_active(h, s) == s \in h.active_players
is_player_all_in(h, s) == s \in h.all_in_players
has_player_acted(h, s) == s \in h.acted_this_round

\* Faulty variant: the fold takes the pot off the table
fold_player_clearing_pot(h, s) ==
    [h EXCEPT !.active_players = @ \ {s},
              !.active_count = saturating_sub(@, 1),
              !.pot = 0]

fold_player(h, s) ==
    [h EXCEPT !.active_players = @ \ {s},
              !.active_count = saturating_sub(@, 1)]

mark_acted(h, s) == [h EXCEPT !.acted_this_round = @ \cup {s}]

\* Faulty variant: the acted bits are cleared but the bet to match is kept
reset_betting_round_keeps_current_bet(h) == [h EXCEPT !.acted_this_round = {}]

reset_betting_round(h) == [h EXCEPT !.acted_this_round = {}, !.current_bet = 0]

mark_all_in(h, s) == [h EXCEPT !.all_in_players = @ \cup {s}]

players_who_can_bet(h) == h.active_players \ h.all_in_players

can_anyone_bet(h) == Cardinality(players_who_can_bet(h)) >= 2

is_betting_complete(h) == (players_who_can_bet(h) \ h.acted_this_round) = {}

\* The elements of seq that are in S, in the order of seq (a filter)
RECURSIVE Keep(_, _)
Keep(seq, S) ==
    IF seq = <<>> THEN <<>>
    ELSE (IF Head(seq) \in S THEN <<Head(seq)>> ELSE <<>>) \o Keep(Tail(seq), S)

\* The seats in the order a scan starting after `after` visits them
ScanFrom(after) == [i \in 1 .. max_players |-> (after + i) % max_players]

\* First seat of the scan order that is in S, or -1 (None)
FirstInScan(order, S) ==
    LET hits == {i \in 1 .. Len(order) : order[i] \in S}
    IN IF hits = {} THEN -1
       ELSE order[CHOOSE i \in hits : \A j \in hits : i <= j]

\* Faulty variant: the scan hands the turn back to the seat it started from
next_active_player_same_seat(h, after_seat) == after_seat

next_active_player(h, after_seat) ==
    FirstInScan(ScanFrom(after_seat), h.active_players)

\* --------------------------------------------------------------- PlayerSeat

\* Faulty variant: the bet is not capped by the stack
place_bet_uncapped(seat, amount) ==
    LET left == saturating_sub(seat.chips, amount)
    IN [seat |-> [seat EXCEPT !.chips = left,
                              !.current_bet = saturating_add(@, amount),
                              !.total_bet_this_hand = saturating_add(@, amount),
                              !.status = IF left = 0 THEN "AllIn" ELSE @],
        actual_bet |-> amount]

\* Faulty variant: the seat is marked all-in while it still holds its last chip
place_bet_all_in_with_a_chip_left(seat, amount) ==
    LET actual_bet == Min(amount, seat.chips)
        left == saturating_sub(seat.chips, actual_bet)
    IN [seat |-> [seat EXCEPT !.chips = left,
                              !.current_bet = saturating_add(@, actual_bet),
                              !.total_bet_this_hand = saturating_add(@, actual_bet),
                              !.status = IF left <= 1 THEN "AllIn" ELSE @],
        actual_bet |-> actual_bet]

\* Faulty variant: the bet is not added to total_bet_this_hand
place_bet_not_totalled(seat, amount) ==
    LET actual_bet == Min(amount, seat.chips)
        left == saturating_sub(seat.chips, actual_bet)
    IN [seat |-> [seat EXCEPT !.chips = left,
                              !.current_bet = saturating_add(@, actual_bet),
                              !.status = IF left = 0 THEN "AllIn" ELSE @],
        actual_bet |-> actual_bet]

place_bet(seat, amount) ==
    LET actual_bet == Min(amount, seat.chips)
        left == saturating_sub(seat.chips, actual_bet)
    IN [seat |-> [seat EXCEPT !.chips = left,
                              !.current_bet = saturating_add(@, actual_bet),
                              !.total_bet_this_hand = saturating_add(@, actual_bet),
                              !.status = IF left = 0 THEN "AllIn" ELSE @],
        actual_bet |-> actual_bet]

award_chips(seat, amount) == [seat EXCEPT !.chips = saturating_add(@, amount)]

can_act(seat) == seat.status = "Playing"

\* ----------------------------------------------------------------- results

Reject(h, ss, why) == [ok |-> FALSE, err |-> why, h |-> h, ss |-> ss]
Accept(h, ss) == [ok |-> TRUE, err |-> "", h |-> h, ss |-> ss]

\* ------------------------------------------------------------ player_action

Actions ==
    {[kind |-> k, amount |-> 0] : k \in {"Fold", "Check", "Call", "AllIn"}}
    \cup {[kind |-> "Raise", amount |-> a] : a \in 0 .. MaxRaise}

\* Faulty variant: seats that are all-in are not skipped
find_next_player_ignoring_all_in(h, after_seat) ==
    FirstInScan(ScanFrom(after_seat), h.active_players \ h.acted_this_round)

\* Next seat after `after_seat` that is active, not all-in and has not acted; -1 if none
find_next_player_who_can_act(h, after_seat) ==
    FirstInScan(ScanFrom(after_seat),
                (h.active_players \ h.all_in_players) \ h.acted_this_round)

\* Faulty variant: the round after the River starts the betting over
advance_to_next_phase_reopening_the_hand(h) ==
    IF h.phase \in {"PreFlop", "Flop", "Turn"}
    THEN [h EXCEPT !.awaiting_community_reveal = TRUE]
    ELSE IF h.phase = "River" THEN [h EXCEPT !.phase = "PreFlop"]
    ELSE h

\* player_action.rs advance_to_next_phase: the cards are encrypted, so the round
\* only raises the flag and waits for reveal_community
advance_to_next_phase(h) ==
    IF h.phase \in {"PreFlop", "Flop", "Turn"}
    THEN [h EXCEPT !.awaiting_community_reveal = TRUE]
    ELSE IF h.phase = "River" THEN [h EXCEPT !.phase = "Showdown"]
    ELSE h

\* player_action.rs run_out_to_showdown
pa_run_out_to_showdown(h) ==
    IF h.phase = "River" THEN [h EXCEPT !.phase = "Showdown"]
    ELSE [h EXCEPT !.awaiting_community_reveal = TRUE]

\* Faulty variant: the new bet is recorded but min_raise keeps its old value
raise_current_bet_keeps_min_raise(h, new_bet) ==
    IF new_bet > h.current_bet
    THEN [h EXCEPT !.current_bet = new_bet, !.acted_this_round = {}]
    ELSE h

\* Faulty variant: the new bet is recorded but the seats that acted stay marked
raise_current_bet_keeps_acted(h, new_bet) ==
    IF new_bet > h.current_bet
    THEN [h EXCEPT !.min_raise = saturating_sub(new_bet, h.current_bet),
                   !.current_bet = new_bet]
    ELSE h

\* The bet update shared by Raise and AllIn once the chips are placed
raise_current_bet(h, new_bet) ==
    IF new_bet > h.current_bet
    THEN [h EXCEPT !.min_raise = saturating_sub(new_bet, h.current_bet),
                   !.current_bet = new_bet,
                   !.acted_this_round = {}]
    ELSE h

\* Faulty variant: Check and Call go through without looking at what is owed
apply_action_unguarded(h, seat, s, action) ==
    LET to_call == saturating_sub(h.current_bet, seat.current_bet)
    IN CASE action.kind = "Fold" ->
              LET h1 == fold_player(h, s)
              IN [ok |-> TRUE, err |-> "",
                  h |-> IF h1.active_count = 1 THEN [h1 EXCEPT !.phase = "Settled"] ELSE h1,
                  seat |-> [seat EXCEPT !.status = "Folded"]]
         [] action.kind = "Check" ->
              [ok |-> TRUE, err |-> "", h |-> h, seat |-> seat]
         [] action.kind = "Call" ->
              LET b == place_bet(seat, to_call)
              IN [ok |-> TRUE, err |-> "",
                  h |-> [h EXCEPT !.pot = saturating_add(@, b.actual_bet)],
                  seat |-> b.seat]
         [] action.kind = "Raise" ->
              LET total_bet == saturating_add(seat.current_bet, action.amount)
                  raise_amount == saturating_sub(total_bet, h.current_bet)
              IN IF raise_amount >= h.min_raise
                 THEN LET b == place_bet(seat, action.amount)
                          h1 == [h EXCEPT !.pot = saturating_add(@, b.actual_bet)]
                      IN [ok |-> TRUE, err |-> "",
                          h |-> raise_current_bet(h1, b.seat.current_bet),
                          seat |-> b.seat]
                 ELSE [ok |-> FALSE, err |-> "RaiseTooSmall", h |-> h, seat |-> seat]
         [] OTHER ->
              LET b == place_bet(seat, seat.chips)
                  h1 == [h EXCEPT !.pot = saturating_add(@, b.actual_bet)]
              IN [ok |-> TRUE, err |-> "",
                  h |-> mark_all_in(raise_current_bet(h1, b.seat.current_bet), s),
                  seat |-> b.seat]

\* The match on the action: [ok, err, h, seat]
apply_action(h, seat, s, action) ==
    LET to_call == saturating_sub(h.current_bet, seat.current_bet)
    IN CASE action.kind = "Fold" ->
              LET h1 == fold_player(h, s)
              IN [ok |-> TRUE, err |-> "",
                  h |-> IF h1.active_count = 1 THEN [h1 EXCEPT !.phase = "Settled"] ELSE h1,
                  seat |-> [seat EXCEPT !.status = "Folded"]]
         [] action.kind = "Check" ->
              IF to_call = 0
              THEN [ok |-> TRUE, err |-> "", h |-> h, seat |-> seat]
              ELSE [ok |-> FALSE, err |-> "CannotCheck", h |-> h, seat |-> seat]
         [] action.kind = "Call" ->
              IF to_call > 0
              THEN LET b == place_bet(seat, to_call)
                   IN [ok |-> TRUE, err |-> "",
                       h |-> [h EXCEPT !.pot = saturating_add(@, b.actual_bet)],
                       seat |-> b.seat]
              ELSE [ok |-> FALSE, err |-> "InvalidAction", h |-> h, seat |-> seat]
         [] action.kind = "Raise" ->
              LET total_bet == saturating_add(seat.current_bet, action.amount)
                  raise_amount == saturating_sub(total_bet, h.current_bet)
              IN IF raise_amount >= h.min_raise
                 THEN LET b == place_bet(seat, action.amount)
                          h1 == [h EXCEPT !.pot = saturating_add(@, b.actual_bet)]
                      IN [ok |-> TRUE, err |-> "",
                          h |-> raise_current_bet(h1, b.seat.current_bet),
                          seat |-> b.seat]
                 ELSE [ok |-> FALSE, err |-> "RaiseTooSmall", h |-> h, seat |-> seat]
         [] OTHER -> \* AllIn
              LET b == place_bet(seat, seat.chips)
                  h1 == [h EXCEPT !.pot = saturating_add(@, b.actual_bet)]
              IN [ok |-> TRUE, err |-> "",
                  h |-> mark_all_in(raise_current_bet(h1, b.seat.current_bet), s),
                  seat |-> b.seat]

\* Faulty variant: a stack drained by a Call or a Raise is not marked all-in
finish_action_without_all_in_mark(h, seat, s) ==
    LET h2 == mark_acted(h, s)
        next_player == find_next_player_who_can_act(h2, s)
    IN IF next_player # -1 THEN [h2 EXCEPT !.action_on = next_player]
       ELSE IF can_anyone_bet(h2) THEN advance_to_next_phase(h2)
       ELSE pa_run_out_to_showdown(h2)

\* After the match: all-in and acted bookkeeping, then the turn or the round moves on
finish_action(h, seat, s) ==
    LET h1 == IF seat.chips = 0 /\ ~is_player_all_in(h, s) THEN mark_all_in(h, s) ELSE h
        h2 == mark_acted(h1, s)
        next_player == find_next_player_who_can_act(h2, s)
    IN IF next_player # -1 THEN [h2 EXCEPT !.action_on = next_player]
       ELSE IF can_anyone_bet(h2) THEN advance_to_next_phase(h2)
       ELSE pa_run_out_to_showdown(h2)

\* Faulty variant: the turn is not checked, any seat that can act may act
player_action_any_seat(h, ss, ts, s, action) ==
    IF ts # "Playing" THEN Reject(h, ss, "HandNotInProgress")
    ELSE IF h.phase \notin BettingPhases THEN Reject(h, ss, "InvalidPhase")
    ELSE IF h.awaiting_community_reveal THEN Reject(h, ss, "AwaitingCommunityReveal")
    ELSE IF ~can_act(ss[s]) THEN Reject(h, ss, "PlayerFolded")
    ELSE LET r == apply_action(h, ss[s], s, action)
         IN IF ~r.ok THEN Reject(h, ss, r.err)
            ELSE Accept(finish_action(r.h, r.seat, s),
                        [ss EXCEPT ![s] = [r.seat EXCEPT !.has_acted = TRUE]])

player_action(h, ss, ts, s, action) ==
    IF ts # "Playing" THEN Reject(h, ss, "HandNotInProgress")
    ELSE IF h.phase \notin BettingPhases THEN Reject(h, ss, "InvalidPhase")
    ELSE IF h.awaiting_community_reveal THEN Reject(h, ss, "AwaitingCommunityReveal")
    ELSE IF h.action_on # s THEN Reject(h, ss, "NotPlayersTurn")
    ELSE IF ~can_act(ss[s]) THEN Reject(h, ss, "PlayerFolded")
    ELSE LET r == apply_action(h, ss[s], s, action)
         IN IF ~r.ok THEN Reject(h, ss, r.err)
            ELSE Accept(finish_action(r.h, r.seat, s),
                        [ss EXCEPT ![s] = [r.seat EXCEPT !.has_acted = TRUE]])


\* ----------------------------------------------------------- timeout_player

\* Faulty variant: the seat left of the dealer, folded or not
seat_left_of_dealer(h) == (h.dealer_position + 1) % max_players

\* First active, not all-in seat left of the dealer; else first active; else the dealer
get_first_active_left_of_dealer(h) ==
    LET a == FirstInScan(ScanFrom(h.dealer_position),
                         h.active_players \ h.all_in_players)
        b == FirstInScan(ScanFrom(h.dealer_position), h.active_players)
    IN IF a # -1 THEN a ELSE IF b # -1 THEN b ELSE h.dealer_position

\* Faulty variant: the slots outside lo..hi are hidden again
store_cards_hiding_others(h, cs, lo, hi) ==
    [h EXCEPT !.community_cards =
        [i \in 1 .. 5 |-> IF i >= lo /\ i <= hi THEN cs[i] ELSE NOT_REVEALED]]

\* community_cards with slots lo..hi filled from the cards cs (cs[i] goes to slot i)
store_cards(h, cs, lo, hi) ==
    [h EXCEPT !.community_cards =
        [i \in 1 .. 5 |-> IF i >= lo /\ i <= hi THEN cs[i] ELSE @[i]]]

\* timeout_player.rs advance_phase_with_cards: reads the cards from deck_state itself
advance_phase_with_cards(h, d) ==
    LET first_to_act == get_first_active_left_of_dealer(h)
    IN CASE h.phase = "PreFlop" ->
              [store_cards(reset_betting_round(h), d, 1, 3)
                  EXCEPT !.phase = "Flop", !.community_revealed = 3,
                         !.action_on = first_to_act]
         [] h.phase = "Flop" ->
              [store_cards(reset_betting_round(h), d, 4, 4)
                  EXCEPT !.phase = "Turn", !.community_revealed = 4,
                         !.action_on = first_to_act]
         [] h.phase = "Turn" ->
              [store_cards(reset_betting_round(h), d, 5, 5)
                  EXCEPT !.phase = "River", !.community_revealed = 5,
                         !.action_on = first_to_act]
         [] h.phase = "River" -> [h EXCEPT !.phase = "Showdown"]
         [] OTHER -> h

\* Faulty variant: the run-out goes to Showdown without the missing community cards
tp_run_out_without_cards(h, d) == [h EXCEPT !.phase = "Showdown"]

\* timeout_player.rs run_out_to_showdown
tp_run_out_to_showdown(h, d) ==
    LET h1 == CASE h.phase = "PreFlop" ->
                     [store_cards(h, d, 1, 5) EXCEPT !.community_revealed = 5]
                [] h.phase = "Flop" ->
                     [store_cards(h, d, 4, 5) EXCEPT !.community_revealed = 5]
                [] h.phase = "Turn" ->
                     [store_cards(h, d, 5, 5) EXCEPT !.community_revealed = 5]
                [] OTHER -> h
    IN [h1 EXCEPT !.phase = "Showdown"]

\* The loop of timeout_player that walks past all-in seats, at most max_players times
RECURSIVE skip_all_in(_, _, _)
skip_all_in(h, action_seat, n) ==
    IF n = 0 \/ ~is_player_all_in(h, action_seat) THEN action_seat
    ELSE LET nx == next_active_player(h, action_seat)
         IN IF nx = -1 THEN action_seat ELSE skip_all_in(h, nx, n - 1)

timeout_player(h, ss, ts, el, d, s) ==
    IF ts # "Playing" THEN Reject(h, ss, "HandNotInProgress")
    ELSE IF h.phase \notin BettingPhases THEN Reject(h, ss, "InvalidPhase")
    ELSE IF h.action_on # s THEN Reject(h, ss, "NotPlayersTurn")
    ELSE IF ~is_player_active(h, s) THEN Reject(h, ss, "PlayerFolded")
    ELSE IF ss[s].status # "Playing" THEN Reject(h, ss, "InvalidAction")
    ELSE IF el < ACTION_TIMEOUT_SECONDS THEN Reject(h, ss, "ActionNotTimedOut")
    ELSE
      LET can_check == ss[s].current_bet >= h.current_bet
          h1 == IF can_check THEN mark_acted(h, s) ELSE fold_player(h, s)
          seat1 == IF can_check THEN [ss[s] EXCEPT !.has_acted = TRUE]
                   ELSE [ss[s] EXCEPT !.status = "Folded"]
          ss1 == [ss EXCEPT ![s] = seat1]
      IN IF h1.active_count = 1 THEN Accept([h1 EXCEPT !.phase = "Showdown"], ss1)
         ELSE
           LET nx == next_active_player(h1, s)
               h2 == IF nx # -1
                     THEN [h1 EXCEPT !.action_on = skip_all_in(h1, nx, max_players)]
                     ELSE h1
           IN IF is_betting_complete(h2) \/ ~can_anyone_bet(h2)
              THEN IF can_anyone_bet(h2)
                   THEN Accept(advance_phase_with_cards(h2, d), ss1)
                   ELSE Accept(tp_run_out_to_showdown(h2, d), ss1)
              ELSE Accept(h2, ss1)

\* --------------------------------------------------------- reveal_community

\* Faulty variant: a run-out is dealt one tranche, like a normal advance
expected_cards_without_runout(h) ==
    CASE h.phase = "PreFlop" -> <<3, 0>>
      [] h.phase = "Flop" -> <<1, 3>>
      [] OTHER -> <<1, 4>>

\* (expected_card_count, start_idx) for the phase; start_idx is 0-based as in the code
expected_cards(h) ==
    LET all_in_runout == ~can_anyone_bet(h)
    IN CASE h.phase = "PreFlop" -> IF all_in_runout THEN <<5, 0>> ELSE <<3, 0>>
         [] h.phase = "Flop" -> IF all_in_runout THEN <<2, 3>> ELSE <<1, 3>>
         [] OTHER -> <<1, 4>>

\* cards: the values revealed, which the Ed25519 check ties to deck_state.cards
reveal_community(h, ss, ts, el, d, is_authority, cards) ==
    IF ts # "Playing" THEN Reject(h, ss, "HandNotInProgress")
    ELSE IF ~is_authority /\ el < ALLOWANCE_TIMEOUT_SECONDS
         THEN Reject(h, ss, "TimeoutNotReached")
    ELSE IF ~h.awaiting_community_reveal THEN Reject(h, ss, "CommunityNotReady")
    ELSE IF h.phase \notin {"PreFlop", "Flop", "Turn"} THEN Reject(h, ss, "InvalidPhase")
    ELSE
      LET all_in_runout == ~can_anyone_bet(h)
          cnt == expected_cards(h)[1]
          start_idx == expected_cards(h)[2]
      IN IF Len(cards) # cnt THEN Reject(h, ss, "InvalidCommunityCards")
         ELSE IF \E i \in 1 .. cnt : cards[i] > 51 THEN Reject(h, ss, "InvalidCard")
         ELSE IF \E i \in 1 .. cnt : cards[i] # d[start_idx + i]
              THEN Reject(h, ss, "Ed25519VerificationFailed")
         ELSE
           LET h1 == [h EXCEPT
                        !.community_cards =
                            [i \in 1 .. 5 |->
                                IF i > start_idx /\ i <= start_idx + cnt
                                THEN cards[i - start_idx] ELSE @[i]],
                        !.community_revealed = start_idx + cnt]
               first_to_act == get_first_active_left_of_dealer(h1)
               h2 == IF all_in_runout THEN [h1 EXCEPT !.phase = "Showdown"]
                     ELSE [reset_betting_round(h1) EXCEPT
                             !.phase = CASE h1.phase = "PreFlop" -> "Flop"
                                         [] h1.phase = "Flop" -> "Turn"
                                         [] OTHER -> "River",
                             !.action_on = first_to_act]
           IN Accept([h2 EXCEPT !.awaiting_community_reveal = FALSE], ss)

\* ------------------------------------------------ reveal_cards, timeout_reveal

reveal_cards(h, ss, s, card1, card2) ==
    IF h.phase # "Showdown" THEN Reject(h, ss, "InvalidPhase")
    ELSE IF ss[s].status \notin {"Playing", "AllIn"} THEN Reject(h, ss, "PlayerNotActive")
    ELSE IF ss[s].cards_revealed THEN Reject(h, ss, "CardsAlreadyRevealed")
    ELSE IF ~(card1 <= 51 /\ card2 <= 51) THEN Reject(h, ss, "InvalidCard")
    ELSE Accept(h, [ss EXCEPT ![s] = [@ EXCEPT !.revealed_card_1 = card1,
                                               !.revealed_card_2 = card2,
                                               !.cards_revealed = TRUE]])

\* Faulty variant: the target is mucked whether or not it has revealed
timeout_reveal_after_reveal(h, ss, ts, el, target_seat) ==
    IF ts # "Playing" THEN Reject(h, ss, "HandNotInProgress")
    ELSE IF h.phase # "Showdown" THEN Reject(h, ss, "InvalidPhase")
    ELSE IF ss[target_seat].status \notin {"Playing", "AllIn"}
         THEN Reject(h, ss, "PlayerNotActive")
    ELSE IF el < REVEAL_TIMEOUT_SECONDS THEN Reject(h, ss, "TimeoutNotReached")
    ELSE Accept([h EXCEPT !.active_players = @ \ {target_seat},
                          !.active_count = saturating_sub(@, 1)],
                [ss EXCEPT ![target_seat] = [@ EXCEPT !.status = "Folded"]])

\* Faulty variant: the target is mucked without waiting for the reveal window
timeout_reveal_without_window(h, ss, ts, el, target_seat) ==
    IF ts # "Playing" THEN Reject(h, ss, "HandNotInProgress")
    ELSE IF h.phase # "Showdown" THEN Reject(h, ss, "InvalidPhase")
    ELSE IF ss[target_seat].status \notin {"Playing", "AllIn"}
         THEN Reject(h, ss, "PlayerNotActive")
    ELSE IF ss[target_seat].cards_revealed THEN Reject(h, ss, "CardsAlreadyRevealed")
    ELSE Accept([h EXCEPT !.active_players = @ \ {target_seat},
                          !.active_count = saturating_sub(@, 1)],
                [ss EXCEPT ![target_seat] = [@ EXCEPT !.status = "Folded"]])

timeout_reveal(h, ss, ts, el, target_seat) ==
    IF ts # "Playing" THEN Reject(h, ss, "HandNotInProgress")
    ELSE IF h.phase # "Showdown" THEN Reject(h, ss, "InvalidPhase")
    ELSE IF ss[target_seat].status \notin {"Playing", "AllIn"}
         THEN Reject(h, ss, "PlayerNotActive")
    ELSE IF ss[target_seat].cards_revealed THEN Reject(h, ss, "CardsAlreadyRevealed")
    ELSE IF el < REVEAL_TIMEOUT_SECONDS THEN Reject(h, ss, "TimeoutNotReached")
    ELSE Accept([h EXCEPT !.active_players = @ \ {target_seat},
                          !.active_count = saturating_sub(@, 1)],
                [ss EXCEPT ![target_seat] = [@ EXCEPT !.status = "Folded"]])


\* -------------------------------------------------------------------- decks

\* Cards are rank + 13 * suit.  Each deck lists the 5 community cards, then the hole
\* cards in dealing order (small blind, big blind, the other seats).
\* DeckBoardPlays: a royal flush on the board, every seat ties.
DeckBoardPlays == <<8, 9, 10, 11, 12, 13, 27, 14, 28, 15, 29>>
\* DeckFirstWins: aces for the first seat dealt, kings for the second, queen high last
DeckFirstWins == <<0, 18, 33, 48, 14, 12, 25, 11, 24, 10, 15>>

Decks == {DeckBoardPlays, DeckFirstWins}

\* ---------------------------------------------------------------- hand_eval

HighCard == 0
OnePair == 1
TwoPair == 2
ThreeOfAKind == 3
Straight == 4
Flush == 5
FullHouse == 6
FourOfAKind == 7
StraightFlush == 8
RoyalFlush == 9

get_rank(card) == card % 13
get_suit(card) == card \div 13

\* Faulty variant: the fifth kicker slot is never looked at
compare_kickers_first_four(k1, k2, i) ==
    IF \A j \in 1 .. 4 : k1[j] = k2[j] THEN "Equal"
    ELSE LET d == CHOOSE j \in 1 .. 4 : k1[j] # k2[j] /\ \A x \in 1 .. j - 1 : k1[x] = k2[x]
         IN IF k1[d] > k2[d] THEN "Greater" ELSE "Less"

\* EvaluatedHand::compare: "Greater", "Less" or "Equal"
RECURSIVE compare_kickers(_, _, _)
compare_kickers(k1, k2, i) ==
    IF i > 5 THEN "Equal"
    ELSE IF k1[i] > k2[i] THEN "Greater"
    ELSE IF k1[i] < k2[i] THEN "Less"
    ELSE compare_kickers(k1, k2, i + 1)

compare(e1, e2) ==
    IF e1.rank > e2.rank THEN "Greater"
    ELSE IF e1.rank < e2.rank THEN "Less"
    ELSE compare_kickers(e1.kickers, e2.kickers, 1)

RECURSIVE InsertDesc(_, _)
InsertDesc(x, s) ==
    IF s = <<>> THEN <<x>>
    ELSE IF x >= Head(s) THEN <<x>> \o s
    ELSE <<Head(s)>> \o InsertDesc(x, Tail(s))

RECURSIVE SortDesc(_)
SortDesc(s) == IF s = <<>> THEN <<>> ELSE InsertDesc(Head(s), SortDesc(Tail(s)))

\* Faulty variant: A 5 4 3 2 passes as an ordinary run, so the wheel is ranked by its ace
is_straight_ranks_with_ace_low(ranks) ==
    \/ \A i \in 1 .. 4 : ranks[i] = ranks[i + 1] + 1
    \/ ranks = <<12, 3, 2, 1, 0>>

is_straight_ranks(ranks) == \A i \in 1 .. 4 : ranks[i] = ranks[i + 1] + 1

RanksDown == <<12, 11, 10, 9, 8, 7, 6, 5, 4, 3, 2, 1, 0>>

\* s[i] if the sequence has an i-th element, else 0 (get(i).unwrap_or(0))
At0(s, i) == IF i <= Len(s) THEN s[i] ELSE 0

Eval(rank, kickers) == [rank |-> rank, kickers |-> kickers]

evaluate_five_cards(cards) ==
    LET ranks == SortDesc([i \in 1 .. 5 |-> get_rank(cards[i])])
        is_flush == \A i \in 1 .. 4 : get_suit(cards[i]) = get_suit(cards[i + 1])
        is_straight == is_straight_ranks(ranks)
        is_wheel == ranks = <<12, 3, 2, 1, 0>>
        rank_counts == [r \in 0 .. 12 |-> Cardinality({i \in 1 .. 5 : ranks[i] = r})]
        quads == Keep(RanksDown, {r \in 0 .. 12 : rank_counts[r] = 4})
        trips == Keep(RanksDown, {r \in 0 .. 12 : rank_counts[r] = 3})
        pairs == Keep(RanksDown, {r \in 0 .. 12 : rank_counts[r] = 2})
        singles == Keep(RanksDown, {r \in 0 .. 12 : rank_counts[r] = 1})
    IN IF is_flush /\ (is_straight \/ is_wheel)
       THEN IF is_wheel THEN Eval(StraightFlush, <<3, 0, 0, 0, 0>>)
            ELSE IF ranks[1] = 12 THEN Eval(RoyalFlush, <<12, 11, 10, 9, 8>>)
            ELSE Eval(StraightFlush, <<ranks[1], 0, 0, 0, 0>>)
       ELSE IF quads # <<>>
       THEN Eval(FourOfAKind,
                 <<quads[1],
                   IF singles # <<>> THEN singles[1]
                   ELSE IF pairs # <<>> THEN pairs[1]
                   ELSE At0(trips, 1),
                   0, 0, 0>>)
       ELSE IF trips # <<>> /\ pairs # <<>>
       THEN Eval(FullHouse, <<trips[1], pairs[1], 0, 0, 0>>)
       ELSE IF is_flush THEN Eval(Flush, ranks)
       ELSE IF is_straight THEN Eval(Straight, <<ranks[1], 0, 0, 0, 0>>)
       ELSE IF is_wheel THEN Eval(Straight, <<3, 0, 0, 0, 0>>)
       ELSE IF trips # <<>>
       THEN Eval(ThreeOfAKind, <<trips[1], At0(singles, 1), At0(singles, 2), 0, 0>>)
       ELSE IF Len(pairs) >= 2
       THEN Eval(TwoPair, <<pairs[1], pairs[2], At0(singles, 1), 0, 0>>)
       ELSE IF Len(pairs) = 1
       THEN Eval(OnePair,
                 <<pairs[1], At0(singles, 1), At0(singles, 2), At0(singles, 3), 0>>)
       ELSE Eval(HighCard, ranks)

\* The 21 index choices (i, j, k, l, m) in the order of evaluate_hand's nested loops
Combos ==
    << <<1,2,3,4,5>>, <<1,2,3,4,6>>, <<1,2,3,4,7>>,
       <<1,2,3,5,6>>, <<1,2,3,5,7>>, <<1,2,3,6,7>>,
       <<1,2,4,5,6>>, <<1,2,4,5,7>>, <<1,2,4,6,7>>,
       <<1,2,5,6,7>>, <<1,3,4,5,6>>, <<1,3,4,5,7>>,
       <<1,3,4,6,7>>, <<1,3,5,6,7>>, <<1,4,5,6,7>>,
       <<2,3,4,5,6>>, <<2,3,4,5,7>>, <<2,3,4,6,7>>,
       <<2,3,5,6,7>>, <<2,4,5,6,7>>, <<3,4,5,6,7>> >>

\* Faulty variant: the first combination is kept, the other 20 are never compared
best_from_keeping_first(cards, best, n) == best

\* best_hand after the combinations n..21, starting from `best`
RECURSIVE best_from(_, _, _)
best_from(cards, best, n) ==
    IF n > Len(Combos) THEN best
    ELSE LET c == Combos[n]
             eval == evaluate_five_cards([i \in 1 .. 5 |-> cards[c[i]]])
         IN best_from(cards, IF compare(eval, best) = "Greater" THEN eval ELSE best, n + 1)

evaluate_hand_21(cards) ==
    best_from(cards, evaluate_five_cards([i \in 1 .. 5 |-> cards[Combos[1][i]]]), 2)

\* The seven-card hands the decks can bring to showdown, evaluated once
DealtHands ==
    {<<d[4 + 2 * k], d[5 + 2 * k], d[1], d[2], d[3], d[4], d[5]>> :
        d \in Decks, k \in 1 .. max_players}

EvaluatedDealtHands == [c \in DealtHands |-> evaluate_hand_21(c)]

evaluate_hand(cards) ==
    IF cards \in DealtHands THEN EvaluatedDealtHands[cards] ELSE evaluate_hand_21(cards)

\* Faulty variant: a seat that ties the best hand so far is not added
RECURSIVE winners_from_dropping_ties(_, _, _, _)
winners_from_dropping_ties(player_cards, best_eval, winners, n) ==
    IF n > Len(player_cards) THEN winners
    ELSE LET eval == evaluate_hand(player_cards[n].cards)
         IN IF compare(eval, best_eval) = "Greater"
            THEN winners_from_dropping_ties(player_cards, eval,
                                            <<player_cards[n].seat>>, n + 1)
            ELSE winners_from_dropping_ties(player_cards, best_eval, winners, n + 1)

\* find_winners over player_cards, a sequence of [seat, cards]; winners in input order
RECURSIVE winners_from(_, _, _, _)
winners_from(player_cards, best_eval, winners, n) ==
    IF n > Len(player_cards) THEN winners
    ELSE LET eval == evaluate_hand(player_cards[n].cards)
             ord == compare(eval, best_eval)
         IN IF ord = "Greater"
            THEN winners_from(player_cards, eval, <<player_cards[n].seat>>, n + 1)
            ELSE IF ord = "Equal"
            THEN winners_from(player_cards, best_eval,
                              Append(winners, player_cards[n].seat), n + 1)
            ELSE winners_from(player_cards, best_eval, winners, n + 1)

find_winners(player_cards) ==
    IF player_cards = <<>> THEN <<>>
    ELSE winners_from(player_cards, evaluate_hand(player_cards[1].cards),
                      <<player_cards[1].seat>>, 2)


\* ----------------------------------------------------------------- showdown

\* remaining_accounts: the seat accounts the caller presents, each at most once;
\* validate_seat_account drops everything that is not a seat of this table
AllSeatsInOrder == [i \in 1 .. max_players |-> i - 1]

AllSeatsReversed == [i \in 1 .. max_players |-> max_players - i]

\* The seat accounts a caller may present: none, every seat in either order,
\* or every seat but one
AccountLists ==
    {<<>>, AllSeatsInOrder, AllSeatsReversed}
    \cup {Keep(AllSeatsInOrder, Seats \ {x}) : x \in Seats}

\* Refund of the excess over the smallest contesting stake, seat by seat
RECURSIVE refund_excess(_, _, _, _, _)
refund_excess(ss, pot, player_bets, min_bet, n) ==
    IF n > Len(player_bets) THEN [ss |-> ss, pot |-> pot]
    ELSE LET s == player_bets[n]
             total_bet == ss[s].total_bet_this_hand
         IN IF total_bet > min_bet
            THEN refund_excess([ss EXCEPT ![s] = award_chips(@, total_bet - min_bet)],
                               saturating_sub(pot, total_bet - min_bet),
                               player_bets, min_bet, n + 1)
            ELSE refund_excess(ss, pot, player_bets, min_bet, n + 1)

\* Faulty variant: every winner is paid the share and the remainder stays unpaid
RECURSIVE pay_winners_without_remainder(_, _, _, _, _)
pay_winners_without_remainder(ss, winners, share, remainder, n) ==
    IF n > Len(winners) THEN ss
    ELSE pay_winners_without_remainder([ss EXCEPT ![winners[n]] = award_chips(@, share)],
                                       winners, share, remainder, n + 1)

\* Winners paid in the order find_winners returned them, the first takes the remainder
RECURSIVE pay_winners(_, _, _, _, _)
pay_winners(ss, winners, share, remainder, n) ==
    IF n > Len(winners) THEN ss
    ELSE pay_winners([ss EXCEPT ![winners[n]] =
                         award_chips(@, IF n = 1 THEN share + remainder ELSE share)],
                     winners, share, remainder, n + 1)

reset_seat(seat) ==
    [seat EXCEPT !.status = "Sitting", !.current_bet = 0, !.total_bet_this_hand = 0,
                 !.hole_card_1 = NOT_REVEALED, !.hole_card_2 = NOT_REVEALED,
                 !.revealed_card_1 = NOT_REVEALED, !.revealed_card_2 = NOT_REVEALED,
                 !.cards_revealed = FALSE, !.has_acted = FALSE]

\* The hole cards settlement evaluates for a seat
shown_card_1(seat) == IF seat.cards_revealed THEN seat.revealed_card_1 ELSE seat.hole_card_1
shown_card_2(seat) == IF seat.cards_revealed THEN seat.revealed_card_2 ELSE seat.hole_card_2

\* Settlement once the guards passed: [ok, err, h, ss]
settle(h, ss, accounts) ==
    LET community_cards == Keep(h.community_cards, 0 .. 51)
        active_seats == Keep(accounts, {s \in Seats : ss[s].status \in {"Playing", "AllIn"}})
        contesting == Keep(active_seats, h.active_players)
        min_bet == IF contesting = <<>> THEN 0
                   ELSE CHOOSE m \in {ss[contesting[i]].total_bet_this_hand :
                                         i \in 1 .. Len(contesting)} :
                          \A i \in 1 .. Len(contesting) :
                              m <= ss[contesting[i]].total_bet_this_hand
        refunded == IF Len(contesting) >= 2
                    THEN refund_excess(ss, h.pot, contesting, min_bet, 1)
                    ELSE [ss |-> ss, pot |-> h.pot]
        pot == refunded.pot
        ss1 == refunded.ss
        done(ss2) == Accept([h EXCEPT !.phase = "Settled", !.pot = 0],
                            [s \in Seats |->
                                IF \E i \in 1 .. Len(accounts) : accounts[i] = s
                                THEN reset_seat(ss2[s]) ELSE ss2[s]])
    IN IF h.active_count > 1
          /\ \E i \in 1 .. Len(contesting) : ~ss[contesting[i]].cards_revealed
       THEN Reject(h, ss, "PlayersNotRevealed")
       ELSE IF h.active_count = 1
       THEN IF contesting = <<>> THEN done(ss1)
            ELSE done([ss1 EXCEPT ![contesting[1]] = award_chips(@, pot)])
       ELSE
         LET player_hands ==
                 [i \in 1 .. Len(contesting) |->
                     [seat |-> contesting[i],
                      cards |-> <<shown_card_1(ss[contesting[i]]),
                                  shown_card_2(ss[contesting[i]]),
                                  At0(community_cards, 1), At0(community_cards, 2),
                                  At0(community_cards, 3), At0(community_cards, 4),
                                  At0(community_cards, 5)>>]]
             winners == find_winners(player_hands)
             winner_count == Len(winners)
         IN IF winner_count = 0 THEN Reject(h, ss, "InvalidPhase")
            ELSE done(pay_winners(ss1, winners, pot \div winner_count,
                                  pot % winner_count, 1))

showdown(h, ss, el, is_authority, accounts) ==
    IF ~is_authority /\ el < ACTION_TIMEOUT_SECONDS
    THEN Reject(h, ss, "UnauthorizedAuthority")
    ELSE IF \E i, j \in 1 .. Len(accounts) : i # j /\ accounts[i] = accounts[j]
    THEN Reject(h, ss, "DuplicateAccount")
    ELSE IF ~(h.phase = "Showdown" \/ (h.phase = "Settled" /\ h.active_count = 1))
    THEN Reject(h, ss, "InvalidPhase")
    ELSE IF ~(Len(Keep(h.community_cards, 0 .. 51)) = 5 \/ h.active_count = 1)
    THEN Reject(h, ss, "InvalidPhase")
    ELSE settle(h, ss, accounts)


\* ------------------------------------------------------ start_hand, deal_cards

\* start_hand's blind and first-to-act positions with every seat occupied
sb_pos == (dealer_pos + 1) % max_players
bb_pos == (sb_pos + 1) % max_players
first_action_pos == (bb_pos + 1) % max_players

EmptySeat(chips) ==
    [chips |-> chips, current_bet |-> 0, total_bet_this_hand |-> 0,
     hole_card_1 |-> NOT_REVEALED, hole_card_2 |-> NOT_REVEALED,
     revealed_card_1 |-> NOT_REVEALED, revealed_card_2 |-> NOT_REVEALED,
     cards_revealed |-> FALSE, status |-> "Sitting", has_acted |-> FALSE]

\* HandState as start_hand leaves it
StartedHand ==
    [phase |-> "Dealing", pot |-> 0, current_bet |-> big_blind, min_raise |-> big_blind,
     dealer_position |-> dealer_pos, action_on |-> first_action_pos,
     community_cards |-> <<NOT_REVEALED, NOT_REVEALED, NOT_REVEALED,
                           NOT_REVEALED, NOT_REVEALED>>,
     community_revealed |-> 0, active_players |-> Seats, acted_this_round |-> {},
     active_count |-> max_players, all_in_players |-> {},
     awaiting_community_reveal |-> FALSE]

\* The seats deal_cards visits, in order: small blind, big blind, then the seats of
\* remaining_accounts other than the blinds.  A seat the caller leaves out is not
\* visited at all
DealOrder(accounts) == <<sb_pos, bb_pos>> \o Keep(accounts, Seats \ {sb_pos, bb_pos})

\* One seat of the deal: blind posted (blind = 0 for the other seats), cards handed
\* out from deal_idx (0-based, as in the code)
deal_seat(seat, blind, is_blind, d, deal_idx) ==
    IF seat.chips > 0
    THEN LET cleared == IF is_blind
                        THEN [seat EXCEPT !.current_bet = 0, !.total_bet_this_hand = 0,
                                          !.has_acted = FALSE]
                        ELSE [seat EXCEPT !.current_bet = 0, !.total_bet_this_hand = 0]
             b == IF is_blind THEN place_bet(cleared, blind)
                  ELSE [seat |-> cleared, actual_bet |-> 0]
         IN [seat |-> [b.seat EXCEPT !.status = "Playing",
                                     !.hole_card_1 = d[deal_idx + 1],
                                     !.hole_card_2 = d[deal_idx + 2]],
             posted |-> b.actual_bet, dealt |-> TRUE]
    ELSE [seat |-> [seat EXCEPT !.status = "Sitting"], posted |-> 0, dealt |-> FALSE]

RECURSIVE deal_from(_, _, _, _, _, _)
deal_from(h, ss, d, deal_idx, order, n) ==
    IF n > Len(order) THEN [h |-> h, ss |-> ss]
    ELSE LET s == order[n]
             r == deal_seat(ss[s], IF n = 1 THEN small_blind ELSE big_blind, n <= 2,
                            d, deal_idx)
             h1 == IF r.dealt
                   THEN [h EXCEPT !.pot = saturating_add(@, r.posted),
                                  !.active_count = @ + 1]
                   ELSE [h EXCEPT !.active_players = @ \ {s}]
         IN deal_from(h1, [ss EXCEPT ![s] = r.seat], d,
                      IF r.dealt THEN deal_idx + 2 ELSE deal_idx, order, n + 1)

deal_cards(h, ss, ts, el, is_authority, d, accounts) ==
    IF ~is_authority /\ el < DEAL_TIMEOUT_SECONDS
    THEN Reject(h, ss, "UnauthorizedAuthority")
    ELSE IF h.phase # "Dealing" THEN Reject(h, ss, "InvalidPhase")
    ELSE IF ts # "Playing" THEN Reject(h, ss, "HandNotInProgress")
    ELSE
      LET h0 == [h EXCEPT !.community_cards = <<NOT_REVEALED, NOT_REVEALED, NOT_REVEALED,
                                                NOT_REVEALED, NOT_REVEALED>>,
                          !.community_revealed = 0,
                          !.active_count = 0]
          r == deal_from(h0, ss, d, 5, DealOrder(accounts), 1)
          first == FirstInScan([i \in 1 .. max_players |->
                                   (h.action_on + i - 1) % max_players],
                               r.h.active_players)
      IN IF r.h.active_count < 2 THEN Reject(h, ss, "NotEnoughPlayers")
         ELSE Accept([r.h EXCEPT !.action_on = IF first # -1 THEN first
                                               ELSE h.action_on,
                                 !.phase = "PreFlop",
                                 !.all_in_players = {}],
                     r.ss)


\* ------------------------------------------------------------------ actions

NoWin == [s \in Seats |-> 0]

Did(op, seat, kind) ==
    [op |-> op, seat |-> seat, kind |-> kind, settled_pot |-> 0, won |-> NoWin]

FullStacks == [s \in Seats |-> MaxStack]

\* The stacks the seats bring: all full, one seat short (a single chip), or the
\* dealer busted in the hand before
StartStacks ==
    {FullStacks, [FullStacks EXCEPT ![dealer_pos] = 0]}
    \cup {[FullStacks EXCEPT ![s] = 1] : s \in Seats}

\* The windows the instructions accepted in the phase compare the elapsed time with
Windows(h) ==
    CASE h.phase = "Dealing" -> {DEAL_TIMEOUT_SECONDS}
      [] h.phase = "Showdown" -> {ACTION_TIMEOUT_SECONDS, REVEAL_TIMEOUT_SECONDS}
      [] h.phase = "Settled" -> {ACTION_TIMEOUT_SECONDS}
      [] OTHER -> {ACTION_TIMEOUT_SECONDS, ALLOWANCE_TIMEOUT_SECONDS}

\* The hand as start_hand leaves it.  start_hand records no last_action_time; the clock
\* of the deal window starts here, and Tick lets the window elapse before any deal
Init ==
    /\ hand = StartedHand
    /\ seats \in {[s \in Seats |-> EmptySeat(c[s])] : c \in StartStacks}
    /\ deck = <<>>
    /\ table_status = "Playing"
    /\ elapsed = 0
    /\ last = Did("start_hand", -1, "")

\* Time passes, up to the next window: between two windows nothing changes in
\* what is accepted
Tick ==
    /\ \E w \in Windows(hand) :
          /\ elapsed < w
          /\ \A v \in Windows(hand) : elapsed < v => w <= v
          /\ elapsed' = w
    /\ UNCHANGED <<hand, seats, deck, table_status, last>>

DealCards(is_authority, d, accounts) ==
    \E r \in {deal_cards(hand, seats, table_status, elapsed, is_authority, d, accounts)} :
       /\ r.ok
       /\ hand' = r.h
       /\ seats' = r.ss
       /\ deck' = d
       /\ elapsed' = 0
       /\ last' = Did("deal_cards", -1, "")
       /\ UNCHANGED table_status

PlayerAction(s, action) ==
    \E r \in {player_action(hand, seats, table_status, s, action)} :
       /\ r.ok
       /\ hand' = r.h
       /\ seats' = r.ss
       /\ elapsed' = 0
       /\ last' = Did("player_action", s, action.kind)
       /\ UNCHANGED <<deck, table_status>>

TimeoutPlayer(s) ==
    \E r \in {timeout_player(hand, seats, table_status, elapsed, deck, s)} :
       /\ r.ok
       /\ hand' = r.h
       /\ seats' = r.ss
       /\ elapsed' = 0
       /\ last' = Did("timeout_player", s, "")
       /\ UNCHANGED <<deck, table_status>>

\* The cards the phase asks for, as attested for deck_state.cards
AttestedCards(h, d) ==
    [i \in 1 .. expected_cards(h)[1] |-> d[expected_cards(h)[2] + i]]

RevealCommunity(is_authority) ==
    /\ deck # <<>>
    /\ \E r \in {reveal_community(hand, seats, table_status, elapsed, deck,
                                  is_authority, AttestedCards(hand, deck))} :
       /\ r.ok
       /\ hand' = r.h
       /\ seats' = r.ss
       /\ elapsed' = 0
       /\ last' = Did("reveal_community", -1, "")
       /\ UNCHANGED <<deck, table_status>>

RevealCards(s) ==
    \E r \in {reveal_cards(hand, seats, s, seats[s].hole_card_1, seats[s].hole_card_2)} :
       /\ r.ok
       /\ hand' = r.h
       /\ seats' = r.ss
       /\ last' = Did("reveal_cards", s, "")
       /\ UNCHANGED <<deck, table_status, elapsed>>

TimeoutReveal(s) ==
    \E r \in {timeout_reveal(hand, seats, table_status, elapsed, s)} :
       /\ r.ok
       /\ hand' = r.h
       /\ seats' = r.ss
       /\ elapsed' = 0
       /\ last' = Did("timeout_reveal", s, "")
       /\ UNCHANGED <<deck, table_status>>

Showdown(is_authority, accounts) ==
    \E r \in {showdown(hand, seats, elapsed, is_authority, accounts)} :
       /\ r.ok
       /\ hand' = r.h
       /\ seats' = r.ss
       /\ table_status' = "Waiting"
       /\ last' = [Did("showdown", -1, "") EXCEPT
                     !.settled_pot = hand.pot,
                     !.won = [s \in Seats |->
                                 IF r.ss[s].chips > seats[s].chips
                                 THEN r.ss[s].chips - seats[s].chips ELSE 0]]
       \* showdown leaves last_action_time alone; once the hand is settled no guard
       \* looks further than ACTION_TIMEOUT_SECONDS, so longer waits are not told apart
       /\ elapsed' = Min(elapsed, ACTION_TIMEOUT_SECONDS)
       /\ UNCHANGED deck

Next ==
    \/ Tick
    \/ \E a \in BOOLEAN, d \in Decks, accounts \in AccountLists : DealCards(a, d, accounts)
    \/ \E s \in Seats, action \in Actions : PlayerAction(s, action)
    \/ \E s \in Seats : TimeoutPlayer(s)
    \/ \E a \in BOOLEAN : RevealCommunity(a)
    \/ \E s \in Seats : RevealCards(s)
    \/ \E s \in Seats : TimeoutReveal(s)
    \/ \E a \in BOOLEAN, accounts \in AccountLists : Showdown(a, accounts)

Spec == Init /\ [][Next]_vars


\* ------------------------------------------------------------------ claims

RECURSIVE chips_upto(_, _)
chips_upto(ss, n) == IF n < 0 THEN 0 ELSE ss[n].chips + chips_upto(ss, n - 1)

\* All the chips in the seats' stacks
TotalChips(ss) == chips_upto(ss, max_players - 1)

\* C1: every accepted showdown adds to the seats' stacks exactly the chips hand.pot
\* held when it started, and leaves hand.pot = 0
C1_SettlementConservesChips ==
    \A a \in BOOLEAN, accounts \in AccountLists :
        LET r == showdown(hand, seats, elapsed, a, accounts)
        IN r.ok => /\ TotalChips(r.ss) = TotalChips(seats) + hand.pot
                   /\ r.h.pot = 0

\* C2: timeouts and mucks never leave the pot unpaid in a state where every
\* instruction, settlement included, is rejected from then on
C2_NoPermanentStall == hand.pot > 0 => ENABLED Next

\* C3: in a betting phase, once the action window has elapsed, timeout_player on the
\* action_on seat that has not acted is accepted, and it moves action_on or the phase
C3_TimeoutMovesTheHand ==
    \A s \in Seats :
        (/\ hand.phase \in BettingPhases
         /\ hand.action_on = s
         /\ ~has_player_acted(hand, s)
         /\ elapsed >= ACTION_TIMEOUT_SECONDS)
        => LET r == timeout_player(hand, seats, table_status, elapsed, deck, s)
           IN /\ r.ok
              /\ r.h.action_on # hand.action_on \/ r.h.phase # hand.phase

\* A seat that has not acted runs out of time; the timeout is accepted and the turn
\* passes to another seat in the same betting round
C3_Witness ==
    \E s \in Seats :
        /\ hand.phase \in BettingPhases
        /\ hand.action_on = s
        /\ ~has_player_acted(hand, s)
        /\ elapsed >= ACTION_TIMEOUT_SECONDS
        /\ LET r == timeout_player(hand, seats, table_status, elapsed, deck, s)
           IN r.ok /\ r.h.phase = hand.phase /\ r.h.action_on # s

\* The action the timeout rule prescribes for a seat that timed out: Check if it already matches
\* hand.current_bet, else Fold
default_action(h, seat) ==
    IF seat.current_bet >= h.current_bet
    THEN [kind |-> "Check", amount |-> 0]
    ELSE [kind |-> "Fold", amount |-> 0]

\* C4: an accepted timeout_player leaves the hand and the seats exactly as player_action
\* does when the seat submits the default action itself (the timestamp aside)
C4_TimeoutEqualsDefaultAction ==
    \A s \in Seats :
        LET t == timeout_player(hand, seats, table_status, elapsed, deck, s)
            p == player_action(hand, seats, table_status, s, default_action(hand, seats[s]))
        IN t.ok => p.ok /\ p.h = t.h /\ p.ss = t.ss

\* C5: timeout_player is rejected, with nothing changed, when the target is not the
\* action_on seat, has folded, or has already acted in this betting round
C5_TimeoutRejectedForIneligible ==
    \A s \in Seats :
        (\/ hand.action_on # s
         \/ seats[s].status = "Folded"
         \/ has_player_acted(hand, s))
        => LET r == timeout_player(hand, seats, table_status, elapsed, deck, s)
           IN ~r.ok /\ r.h = hand /\ r.ss = seats

\* C6: a seat is never both revealed and mucked: timeout_reveal and reveal_cards are
\* rejected for a seat that is Folded or has revealed (so a second timeout_reveal
\* cannot lower active_count again), whatever time has passed
C6_RevealAndMuckExclude ==
    /\ \A s \in Seats : ~(seats[s].cards_revealed /\ seats[s].status = "Folded")
    /\ \A s \in Seats :
          (seats[s].status = "Folded" \/ seats[s].cards_revealed)
          => LET m == timeout_reveal(hand, seats, table_status, REVEAL_TIMEOUT_SECONDS, s)
                 r == reveal_cards(hand, seats, s, seats[s].hole_card_1,
                                   seats[s].hole_card_2)
             IN /\ ~m.ok /\ m.h = hand /\ m.ss = seats
                /\ ~r.ok /\ r.h = hand /\ r.ss = seats

\* At showdown one seat has revealed, another has been mucked, and the reveal
\* window has elapsed again
C6_Witness ==
    \E s, t \in Seats :
        /\ hand.phase = "Showdown"
        /\ seats[s].cards_revealed
        /\ last.op = "timeout_reveal" /\ last.seat = t
        /\ seats[t].status = "Folded"
        /\ elapsed >= REVEAL_TIMEOUT_SECONDS

\* The seat the pot belongs to when one active seat is left
lone_seat(h) == CHOOSE w \in h.active_players : TRUE

\* Whatever accounts the authority presents, settlement is accepted and pays the
\* whole pot to the one active seat
pays_lone_seat(h, ss) ==
    \A accounts \in AccountLists :
        LET r == showdown(h, ss, 0, TRUE, accounts)
        IN /\ r.ok
           /\ r.ss[lone_seat(h)].chips = ss[lone_seat(h)].chips + h.pot
           /\ TotalChips(r.ss) = TotalChips(ss) + h.pot

\* C7: an accepted timeout_reveal marks the seat Folded, takes it out of the active
\* set and lowers active_count by one; if one seat is left, the next showdown is
\* accepted without a reveal and pays that seat the whole pot
C7_MuckLeavesTheWinner ==
    \A s \in Seats :
        LET r == timeout_reveal(hand, seats, table_status, elapsed, s)
        IN r.ok => /\ r.ss[s].status = "Folded"
                   /\ s \in hand.active_players
                   /\ r.h.active_players = hand.active_players \ {s}
                   /\ r.h.active_count = hand.active_count - 1
                   /\ r.h.active_count = 1 => pays_lone_seat(r.h, r.ss)

\* C8: an accepted Fold marks the seat Folded, takes it out of the active set and
\* lowers active_count by one; if one seat is left the hand is Settled in that step,
\* no further community card is revealed, and settlement pays that seat the whole pot
C8_FoldToWin ==
    \A s \in Seats :
        LET r == player_action(hand, seats, table_status, s, [kind |-> "Fold", amount |-> 0])
        IN r.ok => /\ r.ss[s].status = "Folded"
                   /\ s \in hand.active_players
                   /\ r.h.active_players = hand.active_players \ {s}
                   /\ r.h.active_count = hand.active_count - 1
                   /\ r.h.active_count = 1 =>
                        /\ r.h.phase = "Settled"
                        /\ \A a \in BOOLEAN :
                              ~reveal_community(r.h, r.ss, table_status,
                                                ALLOWANCE_TIMEOUT_SECONDS, deck, a,
                                                AttestedCards(r.h, deck)).ok
                        /\ \A x \in Seats :
                              ~timeout_player(r.h, r.ss, table_status,
                                              ACTION_TIMEOUT_SECONDS, deck, x).ok
                        /\ pays_lone_seat(r.h, r.ss)

\* C9: a player action is rejected, with nothing changed, unless the phase is a betting
\* phase, the acting seat is action_on and its status is Playing
C9_ActionNeedsTurnAndPhase ==
    \A s \in Seats, action \in Actions :
        ~(/\ hand.phase \in BettingPhases
          /\ hand.action_on = s
          /\ seats[s].status = "Playing")
        => LET r == player_action(hand, seats, table_status, s, action)
           IN ~r.ok /\ r.h = hand /\ r.ss = seats

\* In a betting round open for action, one seat waits for its turn and one has folded
C9_Witness ==
    \E s, t \in Seats :
        /\ hand.phase \in BettingPhases
        /\ ~hand.awaiting_community_reveal
        /\ last.op = "player_action"
        /\ s # hand.action_on /\ seats[s].status = "Playing"
        /\ seats[t].status = "Folded"

\* C10: Check is rejected when the seat has something to call, Call is rejected when
\* it has nothing to call
C10_CheckAndCallGuards ==
    \A s \in Seats :
        LET to_call == saturating_sub(hand.current_bet, seats[s].current_bet)
            check == player_action(hand, seats, table_status, s,
                                   [kind |-> "Check", amount |-> 0])
            call == player_action(hand, seats, table_status, s,
                                  [kind |-> "Call", amount |-> 0])
        IN /\ to_call > 0 => ~check.ok /\ check.h = hand /\ check.ss = seats
           /\ to_call = 0 => ~call.ok /\ call.h = hand /\ call.ss = seats

\* After a Raise the seat to act owes chips and may act: its Check is the rejected one
C10_Witness ==
    \E s \in Seats :
        /\ hand.phase \in BettingPhases
        /\ ~hand.awaiting_community_reveal
        /\ hand.action_on = s /\ seats[s].status = "Playing"
        /\ last.op = "player_action" /\ last.kind = "Raise"
        /\ saturating_sub(hand.current_bet, seats[s].current_bet) > 0
        /\ ~player_action(hand, seats, table_status, s, [kind |-> "Check", amount |-> 0]).ok
        /\ player_action(hand, seats, table_status, s, [kind |-> "Call", amount |-> 0]).ok

\* The guards every player action shares pass for seat s
OnTurn(s) ==
    /\ table_status = "Playing"
    /\ hand.phase \in BettingPhases
    /\ ~hand.awaiting_community_reveal
    /\ hand.action_on = s
    /\ seats[s].status = "Playing"

\* C11: an accepted Call moves exactly min(to_call, chips) from the stack to the pot and
\* to the seat's current_bet and total_bet_this_hand, leaving hand.current_bet and
\* min_raise alone; a short call is accepted and leaves the seat with 0 chips, all-in
C11_CallMovesStake ==
    \A s \in Seats :
        LET to_call == saturating_sub(hand.current_bet, seats[s].current_bet)
            stake == Min(to_call, seats[s].chips)
            r == player_action(hand, seats, table_status, s, [kind |-> "Call", amount |-> 0])
        IN /\ r.ok => /\ r.ss[s].chips = seats[s].chips - stake
                      /\ r.h.pot = hand.pot + stake
                      /\ r.ss[s].current_bet = seats[s].current_bet + stake
                      /\ r.ss[s].total_bet_this_hand = seats[s].total_bet_this_hand + stake
                      /\ r.h.current_bet = hand.current_bet
                      /\ r.h.min_raise = hand.min_raise
                      /\ \A x \in Seats \ {s} : r.ss[x] = seats[x]
           /\ (OnTurn(s) /\ to_call > 0 /\ seats[s].chips < to_call)
              => /\ r.ok
                 /\ r.ss[s].chips = 0
                 /\ r.ss[s].status = "AllIn"
                 /\ s \in r.h.all_in_players

\* The seat to act holds chips, but fewer than it owes, and its Call is accepted
C11_Witness ==
    \E s \in Seats :
        /\ OnTurn(s)
        /\ seats[s].chips > 0
        /\ seats[s].chips < saturating_sub(hand.current_bet, seats[s].current_bet)
        /\ player_action(hand, seats, table_status, s, [kind |-> "Call", amount |-> 0]).ok

\* C12: Raise(amount) is rejected when new_total - hand.current_bet < min_raise
\* (new_total = seat.current_bet + amount); otherwise the seat stakes min(amount, chips)
\* and, if new_total > hand.current_bet, hand.current_bet becomes new_total and
\* hand.min_raise the increment
C12_RaiseSetsBetToNewTotal ==
    \A s \in Seats, amount \in 0 .. MaxRaise :
        LET new_total == seats[s].current_bet + amount
            increment == new_total - hand.current_bet
            stake == Min(amount, seats[s].chips)
            r == player_action(hand, seats, table_status, s,
                               [kind |-> "Raise", amount |-> amount])
        IN /\ increment < hand.min_raise => ~r.ok /\ r.h = hand /\ r.ss = seats
           /\ (OnTurn(s) /\ increment >= hand.min_raise) => r.ok
           /\ r.ok => /\ r.ss[s].chips = seats[s].chips - stake
                      /\ r.h.pot = hand.pot + stake
                      /\ new_total > hand.current_bet
                         => /\ r.h.current_bet = new_total
                            /\ r.h.min_raise = increment

\* C12 as amended: the bet the hand records is what the seat has actually staked,
\* staked_total = seat.current_bet + min(amount, chips); current_bet and min_raise
\* change only if staked_total exceeds hand.current_bet
C12_RaiseSetsBetToStakedTotal ==
    \A s \in Seats, amount \in 0 .. MaxRaise :
        LET new_total == seats[s].current_bet + amount
            increment == new_total - hand.current_bet
            stake == Min(amount, seats[s].chips)
            staked_total == seats[s].current_bet + stake
            r == player_action(hand, seats, table_status, s,
                               [kind |-> "Raise", amount |-> amount])
        IN /\ increment < hand.min_raise => ~r.ok /\ r.h = hand /\ r.ss = seats
           /\ (OnTurn(s) /\ increment >= hand.min_raise) => r.ok
           /\ r.ok => /\ r.ss[s].chips = seats[s].chips - stake
                      /\ r.h.pot = hand.pot + stake
                      /\ r.ss[s].current_bet = staked_total
                      /\ IF staked_total > hand.current_bet
                         THEN /\ r.h.current_bet = staked_total
                              /\ r.h.min_raise = staked_total - hand.current_bet
                         ELSE /\ r.h.current_bet = hand.current_bet
                              /\ r.h.min_raise = hand.min_raise

\* The seat to act raises by more than its stack; the raise is accepted and the bet to
\* match becomes what the seat could stake
C12_Witness ==
    \E s \in Seats, amount \in 0 .. MaxRaise :
        /\ OnTurn(s)
        /\ amount > seats[s].chips
        /\ seats[s].current_bet + seats[s].chips > hand.current_bet
        /\ player_action(hand, seats, table_status, s,
                         [kind |-> "Raise", amount |-> amount]).ok

\* The actions that put chips in and may raise the bet to match
RaisingActions ==
    {[kind |-> "AllIn", amount |-> 0]}
    \cup {[kind |-> "Raise", amount |-> a] : a \in 0 .. MaxRaise}

\* C13: is_betting_complete is true exactly when every active seat that is not all-in
\* has its acted bit set; after an accepted Raise or AllIn that increases
\* hand.current_bet only the actor's acted bit is set, and while another active seat
\* that is not all-in remains the round is not complete
C13_RaiseReopensTheRound ==
    /\ is_betting_complete(hand)
       <=> \A x \in Seats :
              (is_player_active(hand, x) /\ ~is_player_all_in(hand, x))
              => has_player_acted(hand, x)
    /\ \A s \in Seats, action \in RaisingActions :
          LET r == player_action(hand, seats, table_status, s, action)
          IN (r.ok /\ r.h.current_bet > hand.current_bet)
             => /\ r.h.acted_this_round = {s}
                /\ (\E x \in Seats \ {s} :
                       is_player_active(r.h, x) /\ ~is_player_all_in(r.h, x))
                   => /\ ~is_betting_complete(r.h)
                      /\ r.h.phase = hand.phase
                      /\ ~r.h.awaiting_community_reveal

\* Another seat has acted in this round, and the seat to act raises the bet
C13_Witness ==
    \E s \in Seats, action \in RaisingActions :
        /\ OnTurn(s)
        /\ \E x \in Seats \ {s} :
              /\ has_player_acted(hand, x)
              /\ is_player_active(hand, x) /\ ~is_player_all_in(hand, x)
        /\ LET r == player_action(hand, seats, table_status, s, action)
           IN r.ok /\ r.h.current_bet > hand.current_bet

\* The actions that stake chips
StakingActions == RaisingActions \cup {[kind |-> "Call", amount |-> 0]}

\* C14: an accepted AllIn stakes the whole stack and puts the seat in the all-in set;
\* after an accepted Call, Raise or AllIn that leaves the stack at 0 the seat is in the
\* all-in set with status AllIn; a seat all-in this way is not the seat whose action
\* the hand waits for
C14_AllInSeatsLeaveTheTurnOrder ==
    /\ \A s \in Seats :
          LET r == player_action(hand, seats, table_status, s, [kind |-> "AllIn", amount |-> 0])
          IN r.ok => /\ r.ss[s].chips = 0
                     /\ r.h.pot = hand.pot + seats[s].chips
                     /\ r.ss[s].total_bet_this_hand =
                            seats[s].total_bet_this_hand + seats[s].chips
                     /\ is_player_all_in(r.h, s)
    /\ \A s \in Seats, action \in StakingActions :
          LET r == player_action(hand, seats, table_status, s, action)
          IN (r.ok /\ r.ss[s].chips = 0)
             => /\ is_player_all_in(r.h, s)
                /\ r.ss[s].status = "AllIn"
    /\ \A s \in Seats :
          (/\ is_player_all_in(hand, s)
           /\ hand.phase \in BettingPhases
           /\ ~hand.awaiting_community_reveal)
          => hand.action_on # s
    /\ \A s \in Seats : is_player_all_in(hand, s) => seats[s].status # "Playing"

\* A seat has called with its last chips and the turn has passed to another seat
C14_Witness ==
    /\ last.op = "player_action" /\ last.kind = "Call"
    /\ seats[last.seat].chips = 0
    /\ is_player_all_in(hand, last.seat)
    /\ hand.phase \in BettingPhases
    /\ ~hand.awaiting_community_reveal
    /\ hand.action_on # last.seat

\* The seats an action by seat a leaves to act, given the hand h after the action
seats_to_act(h) == {x \in Seats : /\ is_player_active(h, x)
                                  /\ ~is_player_all_in(h, x)
                                  /\ ~has_player_acted(h, x)}

\* x is the first seat of S clockwise from a: a+1, a+2, ... modulo max_players
first_clockwise(a, S, x) ==
    \E k \in 1 .. max_players :
        /\ x = (a + k) % max_players
        /\ x \in S
        /\ \A j \in 1 .. (k - 1) : (a + j) % max_players \notin S

\* C15: after an accepted action by seat a, if some seat is active, not all-in and has
\* not acted, action_on is the first such seat clockwise from a, and the phase does not
\* change in that step
C15_TurnPassesClockwise ==
    \A a \in Seats, action \in Actions :
        LET r == player_action(hand, seats, table_status, a, action)
        IN (r.ok /\ seats_to_act(r.h) # {})
           => /\ first_clockwise(a, seats_to_act(r.h), r.h.action_on)
              /\ r.h.phase = hand.phase

\* C15 as amended: the phase does not change in that step unless the action is the Fold
\* that leaves one active seat, which settles the hand
C15_TurnPassesClockwiseUnlessFoldToWin ==
    \A a \in Seats, action \in Actions :
        LET r == player_action(hand, seats, table_status, a, action)
        IN (r.ok /\ seats_to_act(r.h) # {})
           => /\ first_clockwise(a, seats_to_act(r.h), r.h.action_on)
              /\ ~r.h.awaiting_community_reveal
              /\ IF action.kind = "Fold" /\ r.h.active_count = 1
                 THEN r.h.phase = "Settled"
                 ELSE r.h.phase = hand.phase

\* The seat to act acts, the next seat clockwise has folded, is all-in or has acted,
\* and the turn passes over it
C15_Witness ==
    \E a \in Seats, action \in Actions :
        LET r == player_action(hand, seats, table_status, a, action)
        IN /\ r.ok
           /\ seats_to_act(r.h) # {}
           /\ (a + 1) % max_players \notin seats_to_act(r.h)
           /\ r.h.action_on = (a + 2) % max_players
           /\ r.h.phase = hand.phase

\* The phase that follows a betting phase
next_phase(p) ==
    CASE p = "PreFlop" -> "Flop"
      [] p = "Flop" -> "Turn"
      [] p = "Turn" -> "River"
      [] OTHER -> "Showdown"

\* The community cards a normal advance out of the phase reveals
tranche(p) ==
    CASE p = "PreFlop" -> 3
      [] p = "Flop" -> 1
      [] p = "Turn" -> 1
      [] OTHER -> 0

\* h2 is h advanced by exactly one phase: the tranche revealed from the deck d, the
\* acted bits and current_bet reset, the first active seat that is not all-in
\* clockwise of the dealer to act
advanced_one_phase(h, h2, d) ==
    /\ h2.phase = next_phase(h.phase)
    /\ h2.community_revealed = h.community_revealed + tranche(h.phase)
    /\ \A i \in 1 .. 5 :
          h2.community_cards[i] = IF i <= h2.community_revealed THEN d[i] ELSE NOT_REVEALED
    /\ h2.acted_this_round = {}
    /\ h2.current_bet = 0
    /\ first_clockwise(h.dealer_position, players_who_can_bet(h2), h2.action_on)

\* The round has ended normally in h: nobody is left to act and two seats can still bet
round_complete(h) == seats_to_act(h) = {} /\ can_anyone_bet(h)

\* C16: when a betting round completes with at least two active seats not all-in, the
\* hand advances exactly one phase, revealing 3, 1, 1 or no cards, with the acted bits
\* and current_bet reset and action_on on the first active seat that is not all-in
\* clockwise of the dealer.  An action that completes a round before the River hands
\* the advance to reveal_community; on the River, and in timeout_player, the advance
\* is made in the same step
C16_RoundCompletionAdvancesOnePhase ==
    /\ \A s \in Seats, action \in Actions :
          LET r == player_action(hand, seats, table_status, s, action)
          IN (r.ok /\ round_complete(r.h))
             => IF hand.phase = "River"
                THEN advanced_one_phase([r.h EXCEPT !.phase = hand.phase], r.h, deck)
                ELSE r.h.awaiting_community_reveal /\ r.h.phase = hand.phase
    /\ (/\ hand.awaiting_community_reveal
        /\ hand.phase \in {"PreFlop", "Flop", "Turn"}
        /\ table_status = "Playing"
        /\ round_complete(hand))
       => LET r == reveal_community(hand, seats, table_status, 0, deck, TRUE,
                                    AttestedCards(hand, deck))
          IN r.ok /\ advanced_one_phase(hand, r.h, deck)
                  /\ ~r.h.awaiting_community_reveal
    /\ \A s \in Seats :
          LET r == timeout_player(hand, seats, table_status, elapsed, deck, s)
          IN (r.ok /\ r.h.phase # hand.phase /\ can_anyone_bet(r.h))
             => advanced_one_phase(hand, r.h, deck)

\* C16 as amended: the reset of the acted bits and of current_bet and the move of
\* action_on belong to the advances into Flop, Turn and River; the advance from River to
\* Showdown changes the phase and nothing else
C16_RoundCompletionAdvancesAndResetsBeforeShowdown ==
    /\ \A s \in Seats, action \in Actions :
          LET r == player_action(hand, seats, table_status, s, action)
          IN (r.ok /\ round_complete(r.h))
             => IF hand.phase = "River"
                THEN /\ r.h.phase = "Showdown"
                     /\ r.h.community_cards = hand.community_cards
                     /\ r.h.community_revealed = hand.community_revealed
                     /\ r.h.current_bet = hand.current_bet
                     /\ r.h.action_on = hand.action_on
                ELSE r.h.awaiting_community_reveal /\ r.h.phase = hand.phase
    /\ (/\ hand.awaiting_community_reveal
        /\ hand.phase \in {"PreFlop", "Flop", "Turn"}
        /\ table_status = "Playing"
        /\ round_complete(hand))
       => LET r == reveal_community(hand, seats, table_status, 0, deck, TRUE,
                                    AttestedCards(hand, deck))
          IN r.ok /\ advanced_one_phase(hand, r.h, deck)
                  /\ ~r.h.awaiting_community_reveal
    /\ \A s \in Seats :
          LET r == timeout_player(hand, seats, table_status, elapsed, deck, s)
          IN (r.ok /\ r.h.phase # hand.phase /\ can_anyone_bet(r.h))
             => IF hand.phase = "River"
                THEN /\ r.h.phase = "Showdown"
                     /\ r.h.community_cards = hand.community_cards
                     /\ r.h.community_revealed = hand.community_revealed
                     /\ r.h.current_bet = hand.current_bet
                ELSE advanced_one_phase(hand, r.h, deck)

\* A completed PreFlop round has been followed by the reveal of the flop: the Flop
\* round is open, nobody has acted and nothing is owed
C16_Witness ==
    /\ last.op = "reveal_community"
    /\ hand.phase = "Flop"
    /\ hand.community_revealed = 3
    /\ hand.acted_this_round = {}
    /\ hand.current_bet = 0
    /\ can_anyone_bet(hand)

\* The round has ended in h with the betting over: nobody is left to act, at least two
\* seats are active and fewer than two of them are not all-in
runout_complete(h) ==
    /\ seats_to_act(h) = {}
    /\ ~can_anyone_bet(h)
    /\ Cardinality(h.active_players) >= 2

\* h2 is at Showdown with the five community cards of the deck d on the board
all_revealed(h2, d) ==
    /\ h2.phase = "Showdown"
    /\ h2.community_revealed = 5
    /\ \A i \in 1 .. 5 : h2.community_cards[i] = d[i]

\* C17: when a betting round completes with at least two active seats of which fewer
\* than two are not all-in, no player action is accepted any more, the community cards
\* not yet revealed are revealed together (5 from PreFlop, 2 from Flop, 1 from Turn)
\* and the next phase is Showdown.  The action that completes such a round before the
\* River leaves the reveal to reveal_community; a forced timeout accepted meanwhile
\* folds nobody and makes the same run-out
C17_RunOutGoesStraightToShowdown ==
    /\ \A s \in Seats, action \in Actions :
          LET r == player_action(hand, seats, table_status, s, action)
          IN (r.ok /\ runout_complete(r.h))
             => IF hand.phase = "River"
                THEN r.h.phase = "Showdown" /\ r.h.community_revealed = 5
                ELSE r.h.awaiting_community_reveal /\ r.h.phase = hand.phase
    /\ (/\ hand.awaiting_community_reveal
        /\ hand.phase \in {"PreFlop", "Flop", "Turn"}
        /\ table_status = "Playing"
        /\ runout_complete(hand))
       => /\ \A s \in Seats, action \in Actions :
                ~player_action(hand, seats, table_status, s, action).ok
          /\ LET r == reveal_community(hand, seats, table_status, 0, deck, TRUE,
                                       AttestedCards(hand, deck))
             IN /\ r.ok
                /\ all_revealed(r.h, deck)
                /\ Len(AttestedCards(hand, deck)) =
                       CASE hand.phase = "PreFlop" -> 5
                         [] hand.phase = "Flop" -> 2
                         [] OTHER -> 1
                /\ hand.community_revealed + Len(AttestedCards(hand, deck)) = 5
          /\ \A s \in Seats :
                LET r == timeout_player(hand, seats, table_status,
                                        ACTION_TIMEOUT_SECONDS, deck, s)
                IN r.ok => /\ all_revealed(r.h, deck)
                           /\ r.h.active_players = hand.active_players
    /\ \A s \in Seats :
          LET r == timeout_player(hand, seats, table_status, elapsed, deck, s)
          IN (r.ok /\ r.h.phase # hand.phase /\ runout_complete(r.h))
             => all_revealed(r.h, deck)
    /\ hand.phase \in {"Showdown", "Settled"}
       => \A s \in Seats, action \in Actions :
             ~player_action(hand, seats, table_status, s, action).ok

\* A PreFlop round has completed with the betting over; the run-out of all five cards
\* is pending and the authority's reveal is accepted
C17_Witness ==
    /\ hand.awaiting_community_reveal
    /\ hand.phase = "PreFlop"
    /\ runout_complete(hand)
    /\ hand.all_in_players # {}
    /\ reveal_community(hand, seats, table_status, 0, deck, TRUE,
                        AttestedCards(hand, deck)).ok

\* C18: from the end of dealing through settlement, active_count is the number of
\* seats in active_players
C18_ActiveCountMatchesActiveSet ==
    hand.phase # "Dealing" => hand.active_count = Cardinality(hand.active_players)

C20_CommunityCardsOnlyGrow ==
    /\ [](/\ hand.community_revealed \in {0, 3, 4, 5}
          /\ hand.phase = "Flop" => hand.community_revealed >= 3
          /\ hand.phase = "Turn" => hand.community_revealed >= 4
          /\ hand.phase = "River" => hand.community_revealed = 5)
    /\ [][/\ hand'.community_revealed >= hand.community_revealed
          /\ \A i \in 1 .. 5 :
                hand.community_cards[i] # NOT_REVEALED
                => hand'.community_cards[i] = hand.community_cards[i]]_vars

\* The river card has just been revealed on top of the flop and the turn
C20_Witness ==
    /\ hand.phase = "River"
    /\ last.op \in {"reveal_community", "timeout_player"}
    /\ hand.community_revealed = 5
    /\ \A i \in 1 .. 5 : hand.community_cards[i] = deck[i]

\* C21: between operations a seat whose status is AllIn has no chips, whether it came
\* to the hand short, staked its stack in an action or was refunded at settlement
C21_AllInSeatsHaveNoChips ==
    \A s \in Seats : seats[s].status = "AllIn" => seats[s].chips = 0

\* A seat has just staked its last chips in an action and is AllIn with none left
C21_Witness ==
    /\ last.op = "player_action"
    /\ last.kind \in {"Call", "Raise", "AllIn"}
    /\ seats[last.seat].status = "AllIn"
    /\ seats[last.seat].chips = 0
    /\ seats[last.seat].total_bet_this_hand > 0

\* The step just taken is one of the operations that stake nothing and pay nothing
moves_no_chips(l) ==
    \/ l.op \in {"timeout_player", "reveal_cards", "reveal_community", "timeout_reveal"}
    \/ l.op = "player_action" /\ l.kind \in {"Fold", "Check"}

\* C22: a seat's chips go down only in its own Call, Raise or AllIn or when it posts a
\* blind, and go up only in settlement; Fold, Check, forced timeouts, reveal_cards,
\* reveal_community and timeout_reveal leave every stack and the pot unchanged; outside
\* settlement and the posting of the blinds only the actor's stack changes
C22_ChipsMoveOnlyByBetsAndSettlement ==
    [][/\ \A s \in Seats :
             /\ seats'[s].chips < seats[s].chips
                => \/ /\ last'.op = "player_action"
                       /\ last'.seat = s
                       /\ last'.kind \in {"Call", "Raise", "AllIn"}
                       /\ hand'.pot - hand.pot = seats[s].chips - seats'[s].chips
                   \/ last'.op = "deal_cards" /\ s \in {sb_pos, bb_pos}
             /\ seats'[s].chips > seats[s].chips => last'.op = "showdown"
             /\ (last'.op \in {"player_action", "timeout_player"} /\ s # last'.seat)
                => seats'[s].chips = seats[s].chips
       /\ moves_no_chips(last')
          => /\ \A s \in Seats : seats'[s].chips = seats[s].chips
             /\ hand'.pot = hand.pot]_vars

\* A seat has been folded by a forced timeout while chips are in the pot
C22_Witness ==
    /\ last.op = "timeout_player"
    /\ seats[last.seat].status = "Folded"
    /\ hand.pot > 0
    /\ seats[last.seat].chips > 0

\* Position of a phase in the order of GamePhase
phase_rank(p) ==
    CASE p = "Dealing" -> 0
      [] p = "PreFlop" -> 1
      [] p = "Flop" -> 2
      [] p = "Turn" -> 3
      [] p = "River" -> 4
      [] p = "Showdown" -> 5
      [] p = "Settled" -> 6

\* C23: the phase only moves forward in the order Dealing, PreFlop, Flop, Turn, River,
\* Showdown, Settled; once it is Settled no player action, forced timeout, community
\* reveal or muck is accepted, however long the callers wait, and the phase stays Settled
C23_PhaseOnlyMovesForward ==
    /\ [][phase_rank(hand'.phase) >= phase_rank(hand.phase)]_vars
    /\ [](hand.phase = "Settled"
          => /\ \A s \in Seats, action \in Actions :
                   ~player_action(hand, seats, table_status, s, action).ok
             /\ \A s \in Seats, el \in {elapsed, REVEAL_TIMEOUT_SECONDS} :
                   /\ ~timeout_player(hand, seats, table_status, el, deck, s).ok
                   /\ ~timeout_reveal(hand, seats, table_status, el, s).ok
             /\ \A a \in BOOLEAN, el \in {elapsed, REVEAL_TIMEOUT_SECONDS} :
                   ~reveal_community(hand, seats, table_status, el, deck, a,
                                     AttestedCards(hand, deck)).ok)

\* A fold has left one seat and settled the hand before the flop, with the table still
\* playing
C23_Witness ==
    /\ hand.phase = "Settled"
    /\ table_status = "Playing"
    /\ last.op = "player_action"
    /\ last.kind = "Fold"
    /\ hand.community_revealed = 0

\* The smallest total_bet_this_hand among the active seats
min_active_bet(h, ss) ==
    CHOOSE m \in {ss[s].total_bet_this_hand : s \in h.active_players} :
        \A s \in h.active_players : m <= ss[s].total_bet_this_hand

\* What an active seat staked beyond the smallest active stake; nothing for a folded seat
excess_bet(h, ss, s) ==
    IF s \in h.active_players /\ ss[s].total_bet_this_hand > min_active_bet(h, ss)
    THEN ss[s].total_bet_this_hand - min_active_bet(h, ss)
    ELSE 0

RECURSIVE excess_upto(_, _, _)
excess_upto(h, ss, n) ==
    IF n < 0 THEN 0 ELSE excess_bet(h, ss, n) + excess_upto(h, ss, n - 1)

\* The pot that is split once every excess went back
contested_pot(h, ss) == h.pot - excess_upto(h, ss, max_players - 1)

\* ss2 is ss after every active seat got its excess back and k seats split the rest
\* of the pot, one of them taking the remainder
refunded_then_split(h, ss, ss2, k) ==
    LET paid(s) == ss2[s].chips - ss[s].chips - excess_bet(h, ss, s)
        share == contested_pot(h, ss) \div k
        remainder == contested_pot(h, ss) % k
    IN /\ \A s \in Seats : paid(s) \in {0, share, share + remainder}
       /\ \A s \in Seats \ h.active_players : ss2[s].chips = ss[s].chips
       /\ Cardinality({s \in Seats : paid(s) > 0}) <= k
       /\ TotalChips(ss2) = TotalChips(ss) + h.pot

\* C24: an accepted showdown with at least two active seats gives each active seat back
\* what it staked beyond the smallest active stake, takes the same amount off the pot
\* before the split, and refunds nothing to folded seats
C24_SingleTierExcessRefund ==
    \A a \in BOOLEAN, accounts \in AccountLists :
        LET r == showdown(hand, seats, elapsed, a, accounts)
        IN (r.ok /\ Cardinality(hand.active_players) >= 2)
           => \E k \in 1 .. Cardinality(hand.active_players) :
                 refunded_then_split(hand, seats, r.ss, k)

\* C25: while two or more seats are active and one of them has not revealed its hole
\* cards, every showdown call fails and leaves the hand and the seats as they were
C25_ShowdownWaitsForReveals ==
    (/\ Cardinality(hand.active_players) >= 2
     /\ \E s \in hand.active_players : ~seats[s].cards_revealed)
    => \A a \in BOOLEAN, accounts \in AccountLists :
          LET r == showdown(hand, seats, elapsed, a, accounts)
          IN ~r.ok /\ r.h = hand /\ r.ss = seats

\* The active seats among the accounts presented to settlement
contesting_seats(h, ss, accounts) ==
    {s \in h.active_players :
        /\ ss[s].status \in {"Playing", "AllIn"}
        /\ \E i \in 1 .. Len(accounts) : accounts[i] = s}

\* What settlement gives back to seat s before the split
refund_due(h, ss, accounts, s) ==
    LET C == contesting_seats(h, ss, accounts)
        m == CHOOSE x \in {ss[c].total_bet_this_hand : c \in C} :
                 \A c \in C : x <= ss[c].total_bet_this_hand
    IN IF Cardinality(C) >= 2 /\ s \in C /\ ss[s].total_bet_this_hand > m
       THEN ss[s].total_bet_this_hand - m
       ELSE 0

RECURSIVE refund_due_upto(_, _, _, _)
refund_due_upto(h, ss, accounts, n) ==
    IF n < 0 THEN 0
    ELSE refund_due(h, ss, accounts, n) + refund_due_upto(h, ss, accounts, n - 1)

\* The pot left to split after the refunds
post_refund_pot(h, ss, accounts) == h.pot - refund_due_upto(h, ss, accounts, max_players - 1)

\* The evaluation of the seat's two shown cards with the board
seat_eval(h, ss, s) ==
    evaluate_hand(<<shown_card_1(ss[s]), shown_card_2(ss[s]),
                    h.community_cards[1], h.community_cards[2], h.community_cards[3],
                    h.community_cards[4], h.community_cards[5]>>)

\* The contesting seats whose hand is not less than any other contesting seat's
best_seats(h, ss, accounts) ==
    LET C == contesting_seats(h, ss, accounts)
    IN {s \in C : \A x \in C : compare(seat_eval(h, ss, s), seat_eval(h, ss, x)) # "Less"}

\* The winner that comes first in the presented accounts
first_presented(W, accounts) ==
    CHOOSE s \in W :
        \A x \in W : \E i, j \in 1 .. Len(accounts) :
            accounts[i] = s /\ accounts[j] = x /\ i <= j

lowest_seat(W) == CHOOSE s \in W : \A x \in W : s <= x

\* ss2 is ss after the refunds and a split of the rest among the best seats in which
\* the seat odd takes the remainder
split_with_remainder_to(h, ss, ss2, accounts, odd) ==
    LET W == best_seats(h, ss, accounts)
        P == post_refund_pot(h, ss, accounts)
        k == Cardinality(W)
    IN \A s \in Seats :
          ss2[s].chips = ss[s].chips + refund_due(h, ss, accounts, s)
                         + (IF s \in W THEN P \div k ELSE 0)
                         + (IF s = odd THEN P % k ELSE 0)

\* C26: with k winners and post-refund pot P every winner receives P div k, and the
\* winner with the lowest seat index receives P mod k on top, in whatever order the
\* seats are presented
C26_RemainderToLowestSeat ==
    \A a \in BOOLEAN, accounts \in AccountLists :
        LET r == showdown(hand, seats, elapsed, a, accounts)
        IN (r.ok /\ hand.active_count >= 2)
           => split_with_remainder_to(hand, seats, r.ss, accounts,
                                      lowest_seat(best_seats(hand, seats, accounts)))

\* C26, amended: with k winners and post-refund pot P every winner receives P div k,
\* and the winner presented first to settlement receives P mod k on top
C26_RemainderToFirstPresentedWinner ==
    \A a \in BOOLEAN, accounts \in AccountLists :
        LET r == showdown(hand, seats, elapsed, a, accounts)
        IN (r.ok /\ hand.active_count >= 2)
           => split_with_remainder_to(hand, seats, r.ss, accounts,
                                      first_presented(best_seats(hand, seats, accounts),
                                                      accounts))

\* Settlement is accepted with the seats presented in descending order, two or more
\* winners and a pot that does not divide evenly
C26_Witness ==
    /\ hand.phase = "Showdown"
    /\ hand.active_count >= 2
    /\ showdown(hand, seats, elapsed, TRUE, AllSeatsReversed).ok
    /\ Cardinality(best_seats(hand, seats, AllSeatsReversed)) >= 2
    /\ post_refund_pot(hand, seats, AllSeatsReversed)
           % Cardinality(best_seats(hand, seats, AllSeatsReversed)) # 0

\* Inputs of find_winners: one to three seats, numbered in input order, each holding
\* one of the seven-card hands the decks can deal (the same hand may come twice)
WinnerInputs ==
    UNION {[1 .. n -> DealtHands] : n \in 1 .. max_players}

player_cards_of(hands) == [i \in 1 .. Len(hands) |-> [seat |-> i - 1, cards |-> hands[i]]]

\* The seats of player_cards whose hand is not less than any other's
not_beaten(player_cards) ==
    {player_cards[i].seat : i \in {i \in 1 .. Len(player_cards) :
        \A j \in 1 .. Len(player_cards) :
            compare(evaluate_hand(player_cards[i].cards),
                    evaluate_hand(player_cards[j].cards)) # "Less"}}

\* find_winners returns each not-beaten seat once and nothing else
winners_are_the_not_beaten(player_cards) ==
    LET winners == find_winners(player_cards)
    IN /\ {winners[i] : i \in 1 .. Len(winners)} = not_beaten(player_cards)
       /\ Len(winners) = Cardinality(not_beaten(player_cards))
       /\ winners # <<>>

FindWinnersOnDealtHands ==
    \A hands \in WinnerInputs : winners_are_the_not_beaten(player_cards_of(hands))

\* C27: find_winners returns exactly the seats whose seven-card hand is not less than
\* any other contesting seat's: never empty for a non-empty input, every seat tied for
\* the best hand, no seat with a worse one; for the hands the decks deal in any
\* combination of one to three seats, and for the seats contesting the pot at hand in
\* any order of presentation
C27_FindWinnersReturnsTheBestSeats ==
    /\ FindWinnersOnDealtHands
    /\ (hand.phase = "Showdown" /\ hand.community_revealed = 5)
       => \A accounts \in AccountLists :
             LET C == Keep(accounts, contesting_seats(hand, seats, accounts))
                 pc == [i \in 1 .. Len(C) |->
                          [seat |-> C[i],
                           cards |-> <<shown_card_1(seats[C[i]]), shown_card_2(seats[C[i]]),
                                       hand.community_cards[1], hand.community_cards[2],
                                       hand.community_cards[3], hand.community_cards[4],
                                       hand.community_cards[5]>>]]
             IN C # <<>> => winners_are_the_not_beaten(pc)

\* Three seats contest a board that plays for all of them: find_winners returns the
\* three
C27_Witness ==
    /\ hand.phase = "Showdown"
    /\ hand.community_revealed = 5
    /\ Cardinality(hand.active_players) = 3
    /\ Cardinality(best_seats(hand, seats, AllSeatsInOrder)) = 3
    /\ Len(find_winners([i \in 1 .. 3 |->
               [seat |-> i - 1,
                cards |-> <<shown_card_1(seats[i - 1]), shown_card_2(seats[i - 1]),
                            hand.community_cards[1], hand.community_cards[2],
                            hand.community_cards[3], hand.community_cards[4],
                            hand.community_cards[5]>>]])) = 3

\* The per-hand fields of the seat are cleared
seat_is_reset(seat) ==
    /\ seat.status = "Sitting"
    /\ seat.current_bet = 0
    /\ seat.total_bet_this_hand = 0
    /\ seat.has_acted = FALSE
    /\ seat.hole_card_1 = NOT_REVEALED /\ seat.hole_card_2 = NOT_REVEALED
    /\ seat.revealed_card_1 = NOT_REVEALED /\ seat.revealed_card_2 = NOT_REVEALED
    /\ seat.cards_revealed = FALSE

\* C28: after every accepted settlement every seat that took part in the hand, winner,
\* loser or folded, is reset (Sitting, no bets, not acted, cards cleared), and the hand
\* is Settled with an empty pot
C28_SettlementResetsEverySeat ==
    \A a \in BOOLEAN, accounts \in AccountLists :
        LET r == showdown(hand, seats, elapsed, a, accounts)
        IN r.ok => /\ \A s \in Seats : seats[s].status # "Sitting" => seat_is_reset(r.ss[s])
                   /\ r.h.phase = "Settled"
                   /\ r.h.pot = 0

\* C29: showdown is accepted only in phase Showdown, or in phase Settled with exactly
\* one active seat and the pot still unpaid; after a hand has been settled and paid
\* every further showdown call is rejected
C29_SettlementHappensOnce ==
    \A a \in BOOLEAN, accounts \in AccountLists :
        LET r == showdown(hand, seats, elapsed, a, accounts)
        IN /\ r.ok => \/ hand.phase = "Showdown"
                       \/ (hand.phase = "Settled" /\ hand.active_count = 1
                           /\ hand.pot > 0)
           /\ last.op = "showdown" => ~r.ok

\* The waits shorter than the window w that are tried: none, the time that has
\* passed, and one second short of the window
waits_below(w) == {el \in {0, elapsed, w - 1} : el < w}

\* C30: timeout_player and timeout_reveal attempted before their window has elapsed
\* since last_action_time are rejected and change nothing; every accepted player
\* action, forced timeout, community reveal and muck restarts the window, so a seat
\* that has just been given the action cannot be forced before a full action window
C30_TimeoutsWaitForTheirWindow ==
    /\ [](\A s \in Seats :
            /\ \A el \in waits_below(ACTION_TIMEOUT_SECONDS) :
                  LET r == timeout_player(hand, seats, table_status, el, deck, s)
                  IN ~r.ok /\ r.h = hand /\ r.ss = seats
            /\ \A el \in waits_below(REVEAL_TIMEOUT_SECONDS) :
                  LET r == timeout_reveal(hand, seats, table_status, el, s)
                  IN ~r.ok /\ r.h = hand /\ r.ss = seats)
    /\ [][/\ (/\ hand' # hand \/ seats' # seats
              /\ last'.op \in {"player_action", "timeout_player", "reveal_community",
                                "timeout_reveal"})
             => elapsed' = 0
          /\ (hand'.phase \in BettingPhases /\ hand'.action_on # hand.action_on)
             => elapsed' = 0]_vars

\* A forced timeout has just passed the action to another seat, whose window starts
\* anew
C30_Witness ==
    /\ last.op = "timeout_player"
    /\ hand.phase \in BettingPhases
    /\ ~hand.awaiting_community_reveal
    /\ hand.action_on # last.seat
    /\ seats[hand.action_on].status = "Playing"
    /\ elapsed = 0


\* ------------------------------------------------------- evaluator claims

\* Seven-card hands of the evaluator's own tests: royal flush with two off cards, the
\* wheel, a ten-high straight, three jacks, high cards that differ in the fifth kicker
\* only, one flush held in two hands, six hearts with a deuce of diamonds, a nine-high
\* straight flush, four aces; and the wheel in hearts with a sixth heart
TestHands ==
    { <<12, 11, 10, 9, 8, 13, 27>>,
      <<46, 45, 44, 43, 42, 0, 14>>,
      <<12, 25, 38, 51, 11, 13, 27>>,
      <<12, 0, 1, 2, 3, 7, 24>>,
      <<12, 13, 27, 41, 3, 23, 37>>,
      <<8, 20, 32, 44, 4, 13, 27>>,
      <<9, 22, 35, 51, 11, 13, 27>>,
      <<12, 24, 36, 48, 7, 13, 27>>,
      <<25, 37, 49, 9, 19, 26, 40>>,
      <<13, 27, 12, 11, 10, 9, 7>>,
      <<15, 29, 12, 11, 10, 9, 7>>,
      <<12, 11, 10, 8, 6, 2, 13>> }

\* Eight hearts (A K Q T 8 4 3 2) and the deuce of diamonds: every seven of them hold
\* six or seven hearts and no straight
FlushPool == <<12, 11, 10, 8, 6, 2, 1, 0, 13>>

\* Three aces, two kings, Q J T of hearts and the deuce of spades: every seven of them
\* make a royal flush, a full house, a straight, trips or two pair
MixedPool == <<12, 25, 38, 11, 24, 10, 9, 8, 39>>

\* Ace, 2 3 4 5 6 of mixed suits, two sevens and a king: wheels, six- and seven-high
\* straights, pairs
LowPool == <<25, 0, 14, 28, 42, 4, 18, 31, 50>>

\* The cards of pool left when the cards at i and j (i < j) are taken out
without_two(pool, i, j) ==
    [k \in 1 .. Len(pool) - 2 |->
        pool[IF k < i THEN k ELSE IF k + 1 < j THEN k + 1 ELSE k + 2]]

\* Every seven cards of a pool of nine
sevens_of(pool) ==
    {without_two(pool, p[1], p[2]) :
        p \in {p \in (1 .. Len(pool)) \X (1 .. Len(pool)) : p[1] < p[2]}}

\* The inputs evaluate_hand is checked on
EvalInputs ==
    TestHands \cup DealtHands
    \cup sevens_of(FlushPool) \cup sevens_of(MixedPool) \cup sevens_of(LowPool)

EvaluatedInputs == [c \in EvalInputs |-> evaluate_hand(c)]

\* The evaluations of the five-card subsets of seven cards
five_card_evals(cards) ==
    {evaluate_five_cards([i \in 1 .. 5 |-> cards[Combos[n][i]]]) : n \in 1 .. Len(Combos)}

\* Rank category first, then the five kickers, lexicographically
hand_key(e) == <<e.rank>> \o e.kickers

hand_key_less(a, b) ==
    \E i \in 1 .. 6 :
        /\ \A j \in 1 .. i - 1 : hand_key(a)[j] = hand_key(b)[j]
        /\ hand_key(a)[i] < hand_key(b)[i]

\* The ranks of the cards of suit s, highest first
suited_ranks(cards, s) ==
    SortDesc(SelectSeq([i \in 1 .. Len(cards) |-> IF get_suit(cards[i]) = s
                                                  THEN get_rank(cards[i]) ELSE 99],
                       LAMBDA r : r # 99))

\* With six or more cards of suit s the hand is a flush or a straight flush, and a
\* flush shows the five highest ranks of the suit
flush_takes_the_five_highest(cards, e) ==
    \A s \in 0 .. 3 :
        Len(suited_ranks(cards, s)) >= 6
        => /\ e.rank \in {Flush, StraightFlush, RoyalFlush}
           /\ e.rank = Flush => e.kickers = SubSeq(suited_ranks(cards, s), 1, 5)

EvaluateHandOnInputs ==
    /\ {{Combos[n][i] : i \in 1 .. 5} : n \in 1 .. Len(Combos)}
           = {S \in SUBSET (1 .. 7) : Cardinality(S) = 5}
    /\ \A cards \in EvalInputs :
          /\ Cardinality({cards[i] : i \in 1 .. 7}) = 7
          /\ EvaluatedInputs[cards] \in five_card_evals(cards)
          /\ \A x \in five_card_evals(cards) : ~hand_key_less(EvaluatedInputs[cards], x)
          /\ flush_takes_the_five_highest(cards, EvaluatedInputs[cards])

\* C31: on seven distinct cards evaluate_hand returns the greatest evaluation, by rank
\* category and then by the five kickers in order, among its 21 five-card subsets, and
\* with six or more cards of one suit a flush shows the five highest ranks of that
\* suit; for the test hands, the dealt hands, every seven of three pools of nine cards,
\* and the hands the seats bring to showdown
C31_EvaluateHandIsTheBestOfThe21 ==
    /\ EvaluateHandOnInputs
    /\ (hand.phase = "Showdown" /\ hand.community_revealed = 5)
       => \A s \in hand.active_players :
             LET cards == <<shown_card_1(seats[s]), shown_card_2(seats[s])>>
                          \o hand.community_cards
             IN cards \in EvalInputs => seat_eval(hand, seats, s) = EvaluatedInputs[cards]

\* A seat at showdown holds a royal flush that its first five cards do not make
C31_Witness ==
    /\ hand.phase = "Showdown"
    /\ hand.community_revealed = 5
    /\ \E s \in hand.active_players :
          /\ seat_eval(hand, seats, s).rank = RoyalFlush
          /\ evaluate_five_cards(<<shown_card_1(seats[s]), shown_card_2(seats[s]),
                                   hand.community_cards[1], hand.community_cards[2],
                                   hand.community_cards[3]>>).rank # RoyalFlush

\* The seven cards hold A K Q J T of one suit
holds_royal(cards) ==
    \E s \in 0 .. 3 : {13 * s + r : r \in 8 .. 12} \subseteq {cards[i] : i \in 1 .. 7}

\* The best five of the seven cards are A 2 3 4 5 not all of one suit: the five ranks
\* are there, no six to make a higher straight, and no five cards of one suit
best_is_wheel(cards) ==
    /\ {12, 0, 1, 2, 3} \subseteq {get_rank(cards[i]) : i \in 1 .. 7}
    /\ 4 \notin {get_rank(cards[i]) : i \in 1 .. 7}
    /\ \A s \in 0 .. 3 : Len(suited_ranks(cards, s)) < 5

wheel == Eval(Straight, <<3, 0, 0, 0, 0>>)

\* Every straight from six-high to ace-high and every three of a kind with two kickers
HigherStraights == {Eval(Straight, <<k, 0, 0, 0, 0>>) : k \in 4 .. 12}

AllThreeOfAKind ==
    {Eval(ThreeOfAKind, <<t, a, b, 0, 0>>) : t \in 0 .. 12, a \in 0 .. 12, b \in 0 .. 12}

RoyalFlushAndWheelOnInputs ==
    /\ \A cards \in EvalInputs :
          /\ holds_royal(cards) => EvaluatedInputs[cards].rank = RoyalFlush
          /\ best_is_wheel(cards) => EvaluatedInputs[cards] = wheel
    /\ \A cards \in EvalInputs :
          LET e == EvaluatedInputs[cards]
          IN /\ (e.rank = Straight /\ e.kickers[1] >= 4)
                => compare(wheel, e) = "Less" /\ compare(e, wheel) = "Greater"
             /\ e.rank = ThreeOfAKind
                => compare(wheel, e) = "Greater" /\ compare(e, wheel) = "Less"
    /\ \A e \in HigherStraights : compare(wheel, e) = "Less"
    /\ \A e \in AllThreeOfAKind : compare(wheel, e) = "Greater"

\* C32: seven cards holding A K Q J T of one suit evaluate to RoyalFlush; seven cards
\* whose best five are A 2 3 4 5 not all of one suit evaluate to Straight with first
\* kicker 3, which compares Less than every straight that is six-high or better and
\* Greater than every ThreeOfAKind; on the evaluator inputs, every straight kicker and
\* every three of a kind, and for the seats at showdown
C32_RoyalFlushAndWheel ==
    /\ RoyalFlushAndWheelOnInputs
    /\ (hand.phase = "Showdown" /\ hand.community_revealed = 5)
       => \A s \in hand.active_players :
             holds_royal(<<shown_card_1(seats[s]), shown_card_2(seats[s])>>
                         \o hand.community_cards)
             => seat_eval(hand, seats, s).rank = RoyalFlush

\* A seat at showdown plays the royal flush of the board, and the inputs hold a wheel,
\* a six-high straight and a three of a kind
C32_Witness ==
    /\ hand.phase = "Showdown"
    /\ hand.community_revealed = 5
    /\ \E s \in hand.active_players :
          /\ holds_royal(<<shown_card_1(seats[s]), shown_card_2(seats[s])>>
                         \o hand.community_cards)
          /\ seat_eval(hand, seats, s).rank = RoyalFlush
    /\ \E cards \in EvalInputs : best_is_wheel(cards)
    /\ \E cards \in EvalInputs : EvaluatedInputs[cards] = Eval(Straight, <<4, 0, 0, 0, 0>>)
    /\ \E cards \in EvalInputs : EvaluatedInputs[cards].rank = ThreeOfAKind

\* A K Q J 9 of spades with two low cards: the flush of the tests in another suit
SpadeFlush == <<51, 50, 49, 48, 46, 13, 27>>

\* The evaluated hands compare is checked on: the evaluations of the inputs, and each
\* of them with any rank in its fifth kicker slot
EvaluatedHands == {EvaluatedInputs[c] : c \in EvalInputs} \cup {evaluate_hand(SpadeFlush)}

FifthSlotVariants == {[e EXCEPT !.kickers[5] = k] : e \in EvaluatedHands, k \in 0 .. 12}

CompareOnEvaluatedHands ==
    /\ \A h1 \in FifthSlotVariants, h2 \in FifthSlotVariants :
          /\ compare(h1, h2) \in {"Greater", "Less", "Equal"}
          /\ compare(h1, h2) = "Greater" <=> compare(h2, h1) = "Less"
          /\ compare(h1, h2) = "Equal"
             <=> (h1.rank = h2.rank /\ \A i \in 1 .. 5 : h1.kickers[i] = h2.kickers[i])
          /\ (h1.rank = h2.rank /\ \A i \in 1 .. 4 : h1.kickers[i] = h2.kickers[i])
             => /\ h1.kickers[5] > h2.kickers[5] => compare(h1, h2) = "Greater"
                /\ h1.kickers[5] < h2.kickers[5] => compare(h1, h2) = "Less"
    /\ \A h1 \in EvaluatedHands, h2 \in EvaluatedHands, h3 \in EvaluatedHands :
          (compare(h1, h2) # "Less" /\ compare(h2, h3) # "Less") => compare(h1, h3) # "Less"

\* C33: compare is an antisymmetric total preorder on evaluated hands: Greater one way
\* is Less the other way, Equal exactly when the rank and the five kicker slots are
\* equal whatever the suits, never-Less is transitive, and a difference in the fifth
\* kicker slot alone decides; on the evaluations of the inputs with every fifth
\* kicker, and between the seats at showdown
C33_CompareIsAnAntisymmetricTotalPreorder ==
    /\ CompareOnEvaluatedHands
    /\ (hand.phase = "Showdown" /\ hand.community_revealed = 5)
       => \A s1 \in hand.active_players, s2 \in hand.active_players :
             LET h1 == seat_eval(hand, seats, s1)
                 h2 == seat_eval(hand, seats, s2)
             IN /\ compare(h1, h2) = "Greater" <=> compare(h2, h1) = "Less"
                /\ compare(h1, h2) = "Equal" <=> h1 = h2

\* Two seats at showdown hold different cards and compare Equal; the inputs hold two
\* high-card hands that differ in the fifth kicker only, and the same flush in hearts
\* and in spades
C33_Witness ==
    /\ hand.phase = "Showdown"
    /\ hand.community_revealed = 5
    /\ \E s1 \in hand.active_players, s2 \in hand.active_players :
          /\ shown_card_1(seats[s1]) # shown_card_1(seats[s2])
          /\ compare(seat_eval(hand, seats, s1), seat_eval(hand, seats, s2)) = "Equal"
    /\ compare(EvaluatedInputs[<<12, 24, 36, 48, 7, 13, 27>>],
               EvaluatedInputs[<<25, 37, 49, 9, 19, 26, 40>>]) = "Greater"
    /\ EvaluatedInputs[<<12, 24, 36, 48, 7, 13, 27>>].kickers[4]
           = EvaluatedInputs[<<25, 37, 49, 9, 19, 26, 40>>].kickers[4]
    /\ compare(EvaluatedInputs[<<13, 27, 12, 11, 10, 9, 7>>], evaluate_hand(SpadeFlush))
           = "Equal"


\* --------------------------------------------------- whole-hand claims

\* C34: from PreFlop until the hand is paid out (a betting phase, Showdown, or Settled
\* with the pot still unpaid) at least one seat is active: no sequence of folds,
\* forced timeout folds and reveal-timeout mucks takes active_count to 0
C34_SomeSeatStaysActive ==
    (hand.phase \in BettingPhases \cup {"Showdown"} \/ (hand.phase = "Settled" /\ hand.pot > 0))
    => /\ hand.active_count >= 1
       /\ hand.active_players # {}

\* C35: while awaiting_community_reveal is set, player_action and timeout_player are
\* rejected for every seat, whatever the action and however long the wait, so only
\* reveal_community can change the phase, action_on, the acted seats or the community
\* cards; and reveal_community is accepted only while the flag is set
C35_OnlyRevealCommunityMovesAWaitingHand ==
    /\ hand.awaiting_community_reveal
       => \A s \in Seats :
             /\ \A action \in Actions :
                   ~player_action(hand, seats, table_status, s, action).ok
             /\ \A el \in {elapsed, ACTION_TIMEOUT_SECONDS} :
                   ~timeout_player(hand, seats, table_status, el, deck, s).ok
    /\ (~hand.awaiting_community_reveal /\ deck # <<>>)
       => \A is_authority \in BOOLEAN, el \in {elapsed, ALLOWANCE_TIMEOUT_SECONDS} :
             ~reveal_community(hand, seats, table_status, el, deck, is_authority,
                               AttestedCards(hand, deck)).ok

\* The seats dealt into the hand, folded seats included
dealt_in(ss) == {s \in Seats : ss[s].status # "Sitting"}

RECURSIVE sum_over(_, _)
sum_over(f, S) ==
    IF S = {} THEN 0
    ELSE LET s == CHOOSE x \in S : TRUE IN f[s] + sum_over(f, S \ {s})

stacks(ss) == [s \in Seats |-> ss[s].chips]

total_bets(ss) == [s \in Seats |-> ss[s].total_bet_this_hand]

\* C36: from the end of dealing until settlement starts hand.pot is the sum of
\* total_bet_this_hand over the seats dealt into the hand, folded seats included, and
\* every step that leaves the hand there (the deal that posts the blinds, an action, a
\* timeout, a reveal) keeps the sum of those seats' stacks plus hand.pot, which is
\* therefore still the sum of their stacks just before the blinds were posted
C36_PotAccounting ==
    /\ [](hand.phase \in BettingPhases \cup {"Showdown"}
          => hand.pot = sum_over(total_bets(seats), dealt_in(seats)))
    /\ [][hand'.phase \in BettingPhases \cup {"Showdown"}
          => /\ sum_over(stacks(seats'), dealt_in(seats')) + hand'.pot
                    = sum_over(stacks(seats), dealt_in(seats')) + hand.pot
             /\ hand.phase = "Dealing" => hand.pot = 0
             /\ hand.phase # "Dealing" => dealt_in(seats') = dealt_in(seats)]_vars

\* A hand reaches showdown with a folded seat that staked chips and a pot that holds
\* more than the blinds
C36_Witness ==
    /\ hand.phase = "Showdown"
    /\ \E s \in Seats : seats[s].status = "Folded" /\ seats[s].total_bet_this_hand > 0
    /\ hand.pot > small_blind + big_blind
    /\ hand.pot = sum_over(total_bets(seats), dealt_in(seats))

\* C37: in every betting phase, for every active seat, being in hand.all_in_players,
\* having status AllIn and holding no chips are equivalent; so can_anyone_bet is true
\* exactly when at least two active seats still hold chips
C37_AllInBookkeepingIsConsistent ==
    hand.phase \in BettingPhases
    => /\ \A s \in hand.active_players :
             /\ is_player_all_in(hand, s) <=> seats[s].status = "AllIn"
             /\ seats[s].status = "AllIn" <=> seats[s].chips = 0
       /\ can_anyone_bet(hand)
              <=> Cardinality({s \in hand.active_players : seats[s].chips > 0}) >= 2

\* C38: in a betting phase that is not waiting for a community reveal, the seat at
\* action_on is active, not all-in, has status Playing and has not acted this round
C38_ActionRestsOnASeatThatMustAct ==
    (hand.phase \in BettingPhases /\ ~hand.awaiting_community_reveal)
    => /\ is_player_active(hand, hand.action_on)
       /\ ~is_player_all_in(hand, hand.action_on)
       /\ seats[hand.action_on].status = "Playing"
       /\ ~has_player_acted(hand, hand.action_on)

five_community_cards(h) ==
    /\ h.community_revealed = 5
    /\ \A i \in 1 .. 5 : h.community_cards[i] \in 0 .. 51

C40_RoundBetsStayWithinTheCurrentBet ==
    hand.phase \in BettingPhases
    => /\ \A s \in hand.active_players : seats[s].current_bet <= hand.current_bet
       /\ hand.min_raise >= 1
       /\ \A s \in Seats, x \in 1 .. MaxRaise :
             LET r == player_action(hand, seats, table_status, s,
                                    [kind |-> "Raise", amount |-> x])
             IN (/\ hand.phase \in {"Flop", "Turn", "River"}
                 /\ hand.current_bet = 0
                 /\ x <= seats[s].chips
                 /\ r.ok)
                => r.h.current_bet = x /\ r.h.min_raise = x

====
